---- MODULE Spec2Model ----
(***************************************************************************)
(* State-machine model of the leak probes of VPNLeakTester.tsx:            *)
(*   - checkWebRTCLeak: the peer-connection probe (candidate harvesting,   *)
(*     offer negotiation, the 5000 ms timer);                              *)
(*   - checkDNSLeaks: the resolver probe (collection loop and analysis).   *)
(* Text is modelled as a sequence of one-character strings, so that the    *)
(* regular expressions of the source are computed on characters.  A        *)
(* JavaScript Set is modelled as a duplicate-free sequence in insertion    *)
(* order, which is what Array.from(set) yields.  addLog only appends to    *)
(* the log shown to the user and is left out.                              *)
(***************************************************************************)
EXTENDS Integers, Sequences, FiniteSets, TLC

(***************************************************************************)
(* Bounds of the model.                                                    *)
(***************************************************************************)
\* number of icecandidate events delivered to one probe invocation
MaxCandidates == 3
\* number of icecandidate events in the classifier specification
MaxClassified == 2
\* number of test domains of the resolver probe (the first of the list)
NumDomains == 2
\* the number of detail lines a secondary probe gathers
MaxLines == 2

(***************************************************************************)
(* Text helpers.                                                           *)
(***************************************************************************)
Digits == {"0", "1", "2", "3", "4", "5", "6", "7", "8", "9"}
HexDigits == Digits \cup {"a", "b", "c", "d", "e", "f"}
DigitVal == ("0" :> 0) @@ ("1" :> 1) @@ ("2" :> 2) @@ ("3" :> 3) @@ ("4" :> 4) @@
            ("5" :> 5) @@ ("6" :> 6) @@ ("7" :> 7) @@ ("8" :> 8) @@ ("9" :> 9)

Range(s) == {s[i] : i \in DOMAIN s}

StartsWith(s, p) == Len(s) >= Len(p) /\ SubSeq(s, 1, Len(p)) = p

\* Set.prototype.add on an insertion-ordered set
SetAdd(s, x) == IF x \in Range(s) THEN s ELSE Append(s, x)

\* JavaScript's undefined and null, where the other values are strings
Undefined == "undefined"
Null == "null"
\* the result of String.match without a match, where the other values are texts
NoMatch == <<>>
\* event.candidate of the end-of-candidates event
NullCandidate == <<>>
\* the value of a promise that is not settled
NoValue == [pending |-> TRUE]

(***************************************************************************)
(* The two extraction regular expressions of onicecandidate.  Both have    *)
(* the shape  G (sep G){n-1}  with G = [chars]{1,cap}; String.match        *)
(* returns the leftmost match, each group greedy.                          *)
(***************************************************************************)
\* length of the run of characters of `chars` starting at s[i], at most cap
RECURSIVE Run(_, _, _, _)
Run(s, i, chars, cap) ==
    IF cap = 0 \/ i > Len(s) \/ s[i] \notin chars THEN 0
    ELSE 1 + Run(s, i + 1, chars, cap - 1)

\* index just after a match of n groups starting at s[i], or 0 if none
RECURSIVE MatchGroups(_, _, _, _, _, _)
MatchGroups(s, i, n, chars, cap, sep) ==
    LET k == Run(s, i, chars, cap) IN
    IF k = 0 THEN 0
    ELSE IF n = 1 THEN i + k
    ELSE IF i + k <= Len(s) /\ s[i + k] = sep
         THEN MatchGroups(s, i + k + 1, n - 1, chars, cap, sep)
         ELSE 0

\* leftmost match of the expression in s: the matched text, or NoMatch
RegexMatch(s, n, chars, cap, sep) ==
    LET starts == {i \in 1..Len(s) : MatchGroups(s, i, n, chars, cap, sep) # 0} IN
    IF starts = {} THEN NoMatch
    ELSE LET i == CHOOSE j \in starts : \A k \in starts : j <= k
         IN SubSeq(s, i, MatchGroups(s, i, n, chars, cap, sep) - 1)

\* candidate.match(/([0-9]{1,3}(\.[0-9]{1,3}){3})/)
ipv4Match(line) == RegexMatch(line, 4, Digits, 3, ".")
\* candidate.match(/([a-f0-9]{1,4}(:[a-f0-9]{1,4}){7})/)
ipv6Match(line) == RegexMatch(line, 8, HexDigits, 4, ":")

\* a mutant of the classifier: 172.32.0.0/16 taken for private as well
isLocalIPv4_wide(ip) ==
    \/ StartsWith(ip, <<"1", "9", "2", ".", "1", "6", "8", ".">>)
    \/ StartsWith(ip, <<"1", "6", "9", ".", "2", "5", "4", ".">>)
    \/ StartsWith(ip, <<"1", "0", ".">>)
    \/ /\ StartsWith(ip, <<"1", "7", "2", ".">>)
       /\ Len(ip) >= 7
       /\ \/ ip[5] = "1" /\ ip[6] \in {"6", "7", "8", "9"}
          \/ ip[5] = "2" /\ ip[6] \in Digits
          \/ ip[5] = "3" /\ ip[6] \in {"0", "1", "2"}
       /\ ip[7] = "."

\* ip.match(/^(192\.168\.|169\.254\.|10\.|172\.(1[6-9]|2[0-9]|3[0-1])\.)/)
isLocalIPv4(ip) ==
    \/ StartsWith(ip, <<"1", "9", "2", ".", "1", "6", "8", ".">>)
    \/ StartsWith(ip, <<"1", "6", "9", ".", "2", "5", "4", ".">>)
    \/ StartsWith(ip, <<"1", "0", ".">>)
    \/ /\ StartsWith(ip, <<"1", "7", "2", ".">>)
       /\ Len(ip) >= 7
       /\ \/ ip[5] = "1" /\ ip[6] \in {"6", "7", "8", "9"}
          \/ ip[5] = "2" /\ ip[6] \in Digits
          \/ ip[5] = "3" /\ ip[6] \in {"0", "1"}
       /\ ip[7] = "."


(***************************************************************************)
(* Candidate lines delivered by the browser (event.candidate.candidate).   *)
(* DecText writes a number in decimal; Line puts an address between the    *)
(* fields that surround it in an SDP candidate attribute.                  *)
(***************************************************************************)
DigitText == <<"0", "1", "2", "3", "4", "5", "6", "7", "8", "9">>

RECURSIVE DecText(_)
DecText(n) == IF n < 10 THEN <<DigitText[n + 1]>>
              ELSE DecText(n \div 10) \o <<DigitText[(n % 10) + 1]>>

IPv4Text(a, b, c, d) == a \o <<".">> \o b \o <<".">> \o c \o <<".">> \o d

Line(addr) == <<"1", " ", "u", "d", "p", " ">> \o addr \o <<" ", "9", " ", "t", "y", "p">>

\* the same address in a line of another transport and component
AltLine(addr) == <<"2", " ", "t", "c", "p", " ">> \o addr \o <<" ", "9">>

HostV4 == IPv4Text(DecText(192), DecText(168), DecText(1), DecText(5))
SrflxV4 == IPv4Text(DecText(203), DecText(0), DecText(113), DecText(5))
OtherV4 == IPv4Text(DecText(198), DecText(51), DecText(100), DecText(7))
HostV6 == <<"2", "0", "0", "1", ":", "d", "b", "8", ":", "0", ":", "0", ":",
            "0", ":", "0", ":", "0", ":", "1">>
MdnsName == <<"x", ".", "l", "o", "c", "a", "l">>

\* the lines of the probe specification; NullCandidate is the end-of-candidates event
CandidateLines ==
    { Line(HostV4), Line(SrflxV4), Line(OtherV4), Line(HostV6), Line(MdnsName),
      Line(HostV6 \o <<" ">> \o HostV4), NullCandidate }

\* the lines of the classifier specification: first and second octets around
\* every boundary of the private ranges, with and without leading zeros
FirstOctets ==
    { DecText(n) : n \in {0, 9, 10, 11, 100, 169, 171, 172, 173, 192, 193, 255} }
    \cup { <<"0", "1", "0">>, <<"0", "1", "7", "2">>, <<"9", "9", "9">> }
SecondOctets ==
    { DecText(n) : n \in {0, 1, 15, 16, 17, 20, 31, 32, 167, 168, 169, 254, 255} }
    \cup { <<"0", "1", "6">> }
ClassifierLines ==
    { Line(IPv4Text(a, b, <<"0">>, <<"1">>)) : a \in FirstOctets, b \in SecondOctets }

(***************************************************************************)
(* State of one invocation of checkWebRTCLeak.                             *)
(***************************************************************************)
VARIABLES
    pc,          \* the RTCPeerConnection: "none", "open" or "closed"
    closeCalls,  \* number of calls of pc.close()
    ips,         \* Set ips
    localIps,    \* Set localIps
    publicIps,   \* Set publicIps
    ipv6Ips,     \* Set ipv6Ips
    offer,       \* the createOffer().then(setLocalDescription).catch() chain
    timer,       \* the setTimeout(..., 5000): "unset", "armed" or "fired"
    rtcSettled,  \* whether the promise returned by checkWebRTCLeak is resolved
    rtcResult,   \* the value it was resolved with
    nCandidates, \* icecandidate events delivered so far
    seen         \* history: the candidate lines delivered so far

rtcVars == <<pc, closeCalls, ips, localIps, publicIps, ipv6Ips, offer, timer,
             rtcSettled, rtcResult, nCandidates, seen>>

\* a mutant of the verdict: one public address already counts as a leak
leakedAtDeadline_one(pub) == Len(pub) >= 1

\* leaked: publicIps.size > 1
leakedAtDeadline(pub) == Len(pub) > 1

\* a mutant of resolve: a later call replaces the value
resolveValue_last(settled, old, value) == value

\* resolve(value) of the promise executor: only the first call settles the promise
resolveValue(settled, old, value) == IF settled THEN old ELSE value

\* the value of the catch handler
errorResult == [leaked |-> FALSE, ips |-> <<>>, error |-> TRUE]

\* the value of the timer callback
deadlineResult == [leaked |-> leakedAtDeadline(publicIps), ips |-> ips,
                   localIps |-> localIps, publicIps |-> publicIps, ipv6Ips |-> ipv6Ips]

rtcInit ==
    /\ pc = "none"
    /\ closeCalls = 0
    /\ ips = <<>>
    /\ localIps = <<>>
    /\ publicIps = <<>>
    /\ ipv6Ips = <<>>
    /\ offer = "idle"
    /\ timer = "unset"
    /\ rtcSettled = FALSE
    /\ rtcResult = NoValue
    /\ nCandidates = 0
    /\ seen = {}

\* checkWebRTCLeak up to the return of the promise executor
checkWebRTCLeak ==
    /\ pc = "none"
    /\ pc' = "open"
    /\ ips' = <<>>
    /\ localIps' = <<>>
    /\ publicIps' = <<>>
    /\ ipv6Ips' = <<>>
    /\ offer' = "createOffer"
    /\ timer' = "armed"
    /\ UNCHANGED <<closeCalls, rtcSettled, rtcResult, nCandidates, seen>>

\* a mutant of the handler: the else of the classification is missing, every
\* IPv4 literal is added to publicIps
onicecandidate_noElse(lines, max) ==
    /\ pc = "open"
    /\ nCandidates < max
    /\ \E line \in lines :
         LET v4 == IF line = NullCandidate THEN NoMatch ELSE ipv4Match(line)
             v6 == IF line = NullCandidate THEN NoMatch ELSE ipv6Match(line)
             ips4 == IF v4 # NoMatch THEN SetAdd(ips, v4) ELSE ips
         IN /\ ips' = IF v6 # NoMatch THEN SetAdd(ips4, v6) ELSE ips4
            /\ localIps' = IF v4 # NoMatch /\ isLocalIPv4(v4)
                           THEN SetAdd(localIps, v4) ELSE localIps
            /\ publicIps' = IF v4 # NoMatch THEN SetAdd(publicIps, v4) ELSE publicIps
            /\ ipv6Ips' = IF v6 # NoMatch THEN SetAdd(ipv6Ips, v6) ELSE ipv6Ips
            /\ seen' = IF line = NullCandidate THEN seen ELSE seen \cup {line}
    /\ nCandidates' = nCandidates + 1
    /\ UNCHANGED <<pc, closeCalls, offer, timer, rtcSettled, rtcResult>>

\* pc.onicecandidate, for one event.  The handler is installed before createOffer
\* is called: the browser may deliver an event whenever the connection is open;
\* a closed connection fires no events.
onicecandidate(lines, max) ==
    /\ pc = "open"
    /\ nCandidates < max
    /\ \E line \in lines :
         LET v4 == IF line = NullCandidate THEN NoMatch ELSE ipv4Match(line)
             v6 == IF line = NullCandidate THEN NoMatch ELSE ipv6Match(line)
             ips4 == IF v4 # NoMatch THEN SetAdd(ips, v4) ELSE ips
         IN /\ ips' = IF v6 # NoMatch THEN SetAdd(ips4, v6) ELSE ips4
            /\ localIps' = IF v4 # NoMatch /\ isLocalIPv4(v4)
                           THEN SetAdd(localIps, v4) ELSE localIps
            /\ publicIps' = IF v4 # NoMatch /\ ~isLocalIPv4(v4)
                            THEN SetAdd(publicIps, v4) ELSE publicIps
            /\ ipv6Ips' = IF v6 # NoMatch THEN SetAdd(ipv6Ips, v6) ELSE ipv6Ips
            /\ seen' = IF line = NullCandidate THEN seen ELSE seen \cup {line}
    /\ nCandidates' = nCandidates + 1
    /\ UNCHANGED <<pc, closeCalls, offer, timer, rtcSettled, rtcResult>>

OnIceCandidate == onicecandidate(CandidateLines, MaxCandidates)

\* the classifier specification: a first event with any of the classifier lines,
ClassifyCandidate == nCandidates = 0 /\ onicecandidate(ClassifierLines, MaxClassified)

\* then events that carry an address already found, in the same or another line
ReclassifyCandidate ==
    /\ nCandidates > 0
    /\ onicecandidate({ Line(ips[i]) : i \in DOMAIN ips } \cup { AltLine(ips[i]) : i \in DOMAIN ips },
                      MaxClassified)

\* createOffer() fulfilled: the then-callback calls pc.setLocalDescription(offer).
\* The operations of a closed connection are abandoned, their promises stay pending.
CreateOfferFulfilled ==
    /\ pc = "open"
    /\ offer = "createOffer"
    /\ offer' = "setLocalDescription"
    /\ UNCHANGED <<pc, closeCalls, ips, localIps, publicIps, ipv6Ips, timer,
                   rtcSettled, rtcResult, nCandidates, seen>>

\* setLocalDescription(offer) fulfilled: the chain ends, nothing else runs
SetLocalDescriptionFulfilled ==
    /\ pc = "open"
    /\ offer = "setLocalDescription"
    /\ offer' = "applied"
    /\ UNCHANGED <<pc, closeCalls, ips, localIps, publicIps, ipv6Ips, timer,
                   rtcSettled, rtcResult, nCandidates, seen>>

\* a mutant of the catch handler: the connection is closed, the promise is left pending
offerCatch_noResolve ==
    /\ pc' = "closed"
    /\ closeCalls' = closeCalls + 1
    /\ offer' = "failed"
    /\ UNCHANGED <<ips, localIps, publicIps, ipv6Ips, timer, nCandidates, seen,
                   rtcSettled, rtcResult>>

\* the catch handler of the chain
offerCatch ==
    /\ pc' = "closed"
    /\ closeCalls' = closeCalls + 1
    /\ rtcResult' = resolveValue(rtcSettled, rtcResult, errorResult)
    /\ rtcSettled' = TRUE
    /\ offer' = "failed"
    /\ UNCHANGED <<ips, localIps, publicIps, ipv6Ips, timer, nCandidates, seen>>

\* createOffer() rejected; the rejection reaches the catch handler in the same
\* microtask checkpoint
CreateOfferRejected ==
    /\ pc = "open"
    /\ offer = "createOffer"
    /\ offerCatch

\* setLocalDescription(offer) rejected
SetLocalDescriptionRejected ==
    /\ pc = "open"
    /\ offer = "setLocalDescription"
    /\ offerCatch

\* a mutant of the timer callback: the connection is left open
TimerFires_noClose ==
    /\ timer = "armed"
    /\ timer' = "fired"
    /\ rtcResult' = resolveValue(rtcSettled, rtcResult, deadlineResult)
    /\ rtcSettled' = TRUE
    /\ UNCHANGED <<pc, closeCalls, ips, localIps, publicIps, ipv6Ips, offer,
                   nCandidates, seen>>

\* the callback of setTimeout(..., 5000); the timer is never cleared
TimerFires ==
    /\ timer = "armed"
    /\ timer' = "fired"
    /\ pc' = "closed"
    /\ closeCalls' = closeCalls + 1
    /\ rtcResult' = resolveValue(rtcSettled, rtcResult, deadlineResult)
    /\ rtcSettled' = TRUE
    /\ UNCHANGED <<ips, localIps, publicIps, ipv6Ips, offer, nCandidates, seen>>


(***************************************************************************)
(* The resolver probe, checkDNSLeaks.                                      *)
(*                                                                         *)
(* An IPv4 address is a tuple of its four octets; an IPv6 address and a    *)
(* PTR name are strings.  A fetch is answered by a response: the network   *)
(* may fail (fetch rejects), and the body of a response may or may not be  *)
(* JSON (response.json() rejects if it is not).                            *)
(***************************************************************************)
DNS_SERVERS == <<"Cloudflare", "Google">>

AllTestDomains == <<"google.com", "cloudflare.com", "netflix.com", "wikipedia.org",
                    "amazon.co.jp", "bbc.co.uk", "edu.stanford.edu">>

testDomains == SubSeq(AllTestDomains, 1, NumDomains)

NotJSON == [json |-> FALSE]
JSONAnswer(datas) ==
    [json |-> TRUE, value |-> [Status |-> 0, Answer |-> [i \in DOMAIN datas |-> [data |-> datas[i]]]]]
JSONNoAnswer == [json |-> TRUE, value |-> [Status |-> 2]]

NetworkError == [net |-> FALSE, status |-> 0, body |-> NotJSON]
Response(status, body) == [net |-> TRUE, status |-> status, body |-> body]

Addr1 == <<93, 184, 216, 34>>
Addr2 == <<93, 184, 216, 35>>
Addr6 == "2606:2800:220:1:248:1893:25c8:1946"

\* ip.split('.').reverse().join('.') + '.in-addr.arpa'
arpaName(ip) == <<ip[4], ip[3], ip[2], ip[1], "in-addr", "arpa">>

\* the answers of a resolver to the PTR queries, by query name
PTRZone(r1, r2) == (arpaName(Addr1) :> r1) @@ (arpaName(Addr2) :> r2)

\* What a resolver answers to the queries of one (domain, resolver) pair.
Exchanges ==
    { \* the A query fails in the network
      [a |-> NetworkError, aaaa |-> Response(200, JSONNoAnswer),
       ptr |-> PTRZone(NetworkError, NetworkError)],
      \* the A query gets a non-OK status with a JSON error body
      [a |-> Response(500, JSONNoAnswer), aaaa |-> Response(200, JSONNoAnswer),
       ptr |-> PTRZone(NetworkError, NetworkError)],
      \* the AAAA query gets a non-OK status with a body that is not JSON
      [a |-> Response(200, JSONAnswer(<<Addr1>>)), aaaa |-> Response(503, NotJSON),
       ptr |-> PTRZone(Response(200, JSONAnswer(<<"p.example">>)), NetworkError)],
      \* one address, PTR p.example
      [a |-> Response(200, JSONAnswer(<<Addr1>>)), aaaa |-> Response(200, JSONNoAnswer),
       ptr |-> PTRZone(Response(200, JSONAnswer(<<"p.example">>)), NetworkError)],
      \* the same address, PTR q.example
      [a |-> Response(200, JSONAnswer(<<Addr1>>)), aaaa |-> Response(200, JSONNoAnswer),
       ptr |-> PTRZone(Response(200, JSONAnswer(<<"q.example">>)), NetworkError)],
      \* two addresses, the PTR query of the first fails in the network
      [a |-> Response(200, JSONAnswer(<<Addr1, Addr2>>)), aaaa |-> Response(200, JSONNoAnswer),
       ptr |-> PTRZone(NetworkError, Response(200, JSONAnswer(<<"p.example">>)))],
      \* the same two addresses in another order, one twice; no PTR record for the first
      [a |-> Response(200, JSONAnswer(<<Addr2, Addr1, Addr1>>)), aaaa |-> Response(200, JSONNoAnswer),
       ptr |-> PTRZone(Response(200, JSONAnswer(<<"p.example">>)), Response(200, JSONNoAnswer))],
      \* another single address, and an IPv6 address
      [a |-> Response(200, JSONAnswer(<<Addr2>>)), aaaa |-> Response(200, JSONAnswer(<<Addr6>>)),
       ptr |-> PTRZone(NetworkError, Response(200, JSONAnswer(<<"p.example">>)))],
      \* one address and an IPv6 address, the PTR answer is not JSON
      [a |-> Response(200, JSONAnswer(<<Addr1>>)), aaaa |-> Response(200, JSONAnswer(<<Addr6>>)),
       ptr |-> PTRZone(Response(200, NotJSON), NetworkError)] }

\* await fetch(...) followed by await response.json(): whether it throws
fetchJsonThrows(resp) == ~resp.net \/ ~resp.body.json

\* data.Answer?.map(a => a.data) || []
answerData(resp) ==
    IF "Answer" \in DOMAIN resp.body.value
    THEN [i \in DOMAIN resp.body.value.Answer |-> resp.body.value.Answer[i].data]
    ELSE <<>>

\* the async callback of ipv4Addresses.map: ptrData.Answer?.[0]?.data || null,
\* and null if the lookup throws
reversePtrOf(zone, ip) ==
    LET resp == zone[arpaName(ip)] IN
    IF fetchJsonThrows(resp) THEN Null
    ELSE IF answerData(resp) = <<>> THEN Null
    ELSE answerData(resp)[1]

\* reversePtrs.filter(Boolean)[0]
firstPtr(ptrs) ==
    LET found == SelectSeq(ptrs, LAMBDA x : x # Null) IN
    IF found = <<>> THEN Undefined ELSE found[1]

\* a mutant of the try block: a PTR lookup that throws is not caught by the
\* callback and reaches the catch of the pair
pairRecords_ptrThrows(domain, server, ex) ==
    IF \/ fetchJsonThrows(ex.a) \/ fetchJsonThrows(ex.aaaa)
       \/ \E i \in DOMAIN answerData(ex.a) : fetchJsonThrows(ex.ptr[arpaName(answerData(ex.a)[i])])
    THEN <<>>
    ELSE LET ipv4Addresses == answerData(ex.a)
             reversePtrs == [i \in DOMAIN ipv4Addresses |->
                                reversePtrOf(ex.ptr, ipv4Addresses[i])]
         IN << [server |-> server, domain |-> domain, ipv4 |-> ipv4Addresses,
                ipv6 |-> answerData(ex.aaaa), reversePtr |-> firstPtr(reversePtrs)] >>

\* the body of the try block for one (domain, resolver) pair: the record pushed
\* onto results, as a list of zero (an exception was caught) or one record
pairRecords(domain, server, ex) ==
    IF fetchJsonThrows(ex.a) \/ fetchJsonThrows(ex.aaaa) THEN <<>>
    ELSE LET ipv4Addresses == answerData(ex.a)
             ipv6Addresses == answerData(ex.aaaa)
             reversePtrs == [i \in DOMAIN ipv4Addresses |->
                                reversePtrOf(ex.ptr, ipv4Addresses[i])]
         IN << [server |-> server, domain |-> domain, ipv4 |-> ipv4Addresses,
                ipv6 |-> ipv6Addresses, reversePtr |-> firstPtr(reversePtrs)] >>

\* new Set(list)
RECURSIVE NewSet(_)
NewSet(list) == IF list = <<>> THEN <<>>
                ELSE SetAdd(NewSet(SubSeq(list, 1, Len(list) - 1)), list[Len(list)])

\* a mutant of the comparison: the sizes are not compared
sameAsFirst_noSize(set, first) == \A i \in DOMAIN set : set[i] \in Range(first)

\* a mutant of the comparison: the address lists are compared in order
sameAsFirst_inOrder(set, first) ==
    /\ Len(set) = Len(first)
    /\ \A i \in DOMAIN set : i \in DOMAIN first /\ set[i] = first[i]

\* set.size === sets[0].size && Array.from(set).every(ip => sets[0].has(ip))
sameAsFirst(set, first) ==
    /\ Len(set) = Len(first)
    /\ \A i \in DOMAIN set : set[i] \in Range(first)

\* !sets.every(set => ...)
inconsistent(sets) == ~ \A i \in DOMAIN sets : sameAsFirst(sets[i], sets[1])

\* a mutant of the PTR comparison: records without a PTR name are compared too
ptrMismatch_unfiltered(domainResults) ==
    LET ptrs == [i \in DOMAIN domainResults |-> domainResults[i].reversePtr] IN
    Len(ptrs) > 1 /\ ~ \A i \in DOMAIN ptrs : ptrs[i] = ptrs[1]

\* ptrs = domainResults.map(r => r.reversePtr).filter(Boolean);
\* ptrs.length > 1 && !ptrs.every(ptr => ptr === ptrs[0])
ptrMismatch(domainResults) ==
    LET ptrs == SelectSeq([i \in DOMAIN domainResults |-> domainResults[i].reversePtr],
                          LAMBDA x : x # Undefined)
    IN Len(ptrs) > 1 /\ ~ \A i \in DOMAIN ptrs : ptrs[i] = ptrs[1]

\* a mutant of the loop body: each domain overwrites the flags of the one before
analyzeDomain_overwrite(la, domain, rs) ==
    LET domainResults == SelectSeq(rs, LAMBDA r : r.domain = domain)
        ipv4Sets == [i \in DOMAIN domainResults |-> NewSet(domainResults[i].ipv4)]
        ipv6Sets == [i \in DOMAIN domainResults |-> NewSet(domainResults[i].ipv6)]
    IN [inconsistentIPv4 |-> inconsistent(ipv4Sets),
        inconsistentIPv6 |-> inconsistent(ipv6Sets),
        mismatchedPtr |-> ptrMismatch(domainResults)]

\* the body of the analysis loop for one domain
analyzeDomain(la, domain, rs) ==
    LET domainResults == SelectSeq(rs, LAMBDA r : r.domain = domain)
        ipv4Sets == [i \in DOMAIN domainResults |-> NewSet(domainResults[i].ipv4)]
        ipv6Sets == [i \in DOMAIN domainResults |-> NewSet(domainResults[i].ipv6)]
    IN [inconsistentIPv4 |-> la.inconsistentIPv4 \/ inconsistent(ipv4Sets),
        inconsistentIPv6 |-> la.inconsistentIPv6 \/ inconsistent(ipv6Sets),
        mismatchedPtr |-> la.mismatchedPtr \/ ptrMismatch(domainResults)]

noLeak == [inconsistentIPv4 |-> FALSE, inconsistentIPv6 |-> FALSE, mismatchedPtr |-> FALSE]

\* the analysis loop over the first n test domains
RECURSIVE analyze(_, _)
analyze(n, rs) == IF n = 0 THEN noLeak
                  ELSE analyzeDomain(analyze(n - 1, rs), testDomains[n], rs)

\* a mutant of the verdict: a PTR mismatch alone is not a leak
dnsLeaked_noPtr(la) == la.inconsistentIPv4 \/ la.inconsistentIPv6

\* leaked of the returned object
dnsLeaked(la) == la.inconsistentIPv4 \/ la.inconsistentIPv6 \/ la.mismatchedPtr

\* [...].filter(Boolean).join('; ') || 'No DNS leaks detected'
dnsMessage(la) ==
    LET v4 == la.inconsistentIPv4
        v6 == la.inconsistentIPv6
        ptr == la.mismatchedPtr
    IN CASE v4 /\ v6 /\ ptr -> "Inconsistent IPv4 resolutions detected; Inconsistent IPv6 resolutions detected; Mismatched reverse DNS records detected"
         [] v4 /\ v6 /\ ~ptr -> "Inconsistent IPv4 resolutions detected; Inconsistent IPv6 resolutions detected"
         [] v4 /\ ~v6 /\ ptr -> "Inconsistent IPv4 resolutions detected; Mismatched reverse DNS records detected"
         [] v4 /\ ~v6 /\ ~ptr -> "Inconsistent IPv4 resolutions detected"
         [] ~v4 /\ v6 /\ ptr -> "Inconsistent IPv6 resolutions detected; Mismatched reverse DNS records detected"
         [] ~v4 /\ v6 /\ ~ptr -> "Inconsistent IPv6 resolutions detected"
         [] ~v4 /\ ~v6 /\ ptr -> "Mismatched reverse DNS records detected"
         [] OTHER -> "No DNS leaks detected"

VARIABLES
    dnsPhase,     \* checkDNSLeaks: "idle", "collect" (the query loops) or "done"
    dIdx,         \* index of the domain of the outer loop
    sIdx,         \* index of the resolver of the inner loop
    results,      \* the list results
    leakAnalysis, \* the object leakAnalysis
    dnsResult,    \* the value checkDNSLeaks returned
    queried,      \* history: the (domain, resolver) pairs queried so far
    failedPairs,  \* history: the pairs whose A or AAAA query failed in the
                  \* network or got a non-OK status
    exchanged     \* history: what the resolver answered, by pair

dnsVars == <<dnsPhase, dIdx, sIdx, results, leakAnalysis, dnsResult, queried, failedPairs,
             exchanged>>

dnsInit ==
    /\ dnsPhase = "idle"
    /\ dIdx = 1
    /\ sIdx = 1
    /\ results = <<>>
    /\ leakAnalysis = noLeak
    /\ dnsResult = NoValue
    /\ queried = {}
    /\ failedPairs = {}
    /\ exchanged = <<>>

\* history: what the run records as a failed query, a network error or a
\* non-OK status
queryFailed(resp) == ~resp.net \/ resp.status \notin 200..299

\* checkDNSLeaks up to the first iteration of the loops
checkDNSLeaks ==
    /\ dnsPhase = "idle"
    /\ dnsPhase' = "collect"
    /\ dIdx' = 1
    /\ sIdx' = 1
    /\ results' = <<>>
    /\ UNCHANGED <<leakAnalysis, dnsResult, queried, failedPairs, exchanged>>

\* one iteration of the inner loop: the try block and its catch
ResolvePair ==
    /\ dnsPhase = "collect"
    /\ dIdx <= Len(testDomains)
    /\ \E ex \in Exchanges :
         LET domain == testDomains[dIdx]
             server == DNS_SERVERS[sIdx]
         IN /\ results' = results \o pairRecords(domain, server, ex)
            /\ queried' = queried \cup {<<domain, server>>}
            /\ failedPairs' = IF queryFailed(ex.a) \/ queryFailed(ex.aaaa)
                              THEN failedPairs \cup {<<domain, server>>}
                              ELSE failedPairs
            /\ exchanged' = (<<domain, server>> :> ex) @@ exchanged
    /\ IF sIdx < Len(DNS_SERVERS)
       THEN sIdx' = sIdx + 1 /\ dIdx' = dIdx
       ELSE sIdx' = 1 /\ dIdx' = dIdx + 1
    /\ UNCHANGED <<dnsPhase, leakAnalysis, dnsResult>>

\* after the loops: the analysis loop and the return statement
AnalyzeAndReturn ==
    /\ dnsPhase = "collect"
    /\ dIdx > Len(testDomains)
    /\ leakAnalysis' = analyze(Len(testDomains), results)
    /\ dnsResult' = [leaked |-> dnsLeaked(leakAnalysis'), results |-> results,
                     message |-> dnsMessage(leakAnalysis')]
    /\ dnsPhase' = "done"
    /\ UNCHANGED <<dIdx, sIdx, results, queried, failedPairs, exchanged>>

(***************************************************************************)
(* The address-identification probe, checkIPAddress, and getIpLocation.    *)
(*                                                                         *)
(* An address is a string.  A plain-text body is the list of its tokens;   *)
(* a JSON body is the record it parses to.                                 *)
(***************************************************************************)
IP_SERVICES == << [name |-> "ipify", url |-> "https://api.ipify.org?format=json"],
                  [name |-> "icanhazip", url |-> "https://icanhazip.com"],
                  [name |-> "ipapi", url |-> "https://ipapi.co/json/"] >>

IPa == "203.0.113.9"
IPb == "198.51.100.2"
EmptyString == ""
Whitespace == {" ", "\n"}

TextBody(tokens) == [json |-> FALSE, text |-> tokens]
JSONBody(value) == [json |-> TRUE, value |-> value]

\* what a JSON identification service may answer
JSONServiceResponses ==
    { NetworkError,
      Response(200, JSONBody([ip |-> IPa])),
      Response(200, JSONBody([ip |-> IPb])),
      Response(200, JSONBody([ip |-> EmptyString, query |-> IPa])),
      \* an error object: a JSON body with none of the address fields
      Response(429, JSONBody([error |-> TRUE, reason |-> "RateLimited"])),
      \* an error page: not JSON
      Response(502, NotJSON) }

\* what the plain-text identification service may answer
TextServiceResponses ==
    { NetworkError,
      Response(200, TextBody(<<IPa, "\n">>)),
      Response(200, TextBody(<<" ", IPb, "\n">>)),
      Response(200, TextBody(<<"\n">>)) }

ServiceResponses(service) ==
    IF service.name = "icanhazip" THEN TextServiceResponses ELSE JSONServiceResponses

\* what the geolocation service may answer
GeoResponses ==
    { NetworkError,
      Response(429, JSONBody([error |-> TRUE, reason |-> "RateLimited"])),
      Response(200, NotJSON),
      Response(200, JSONBody([country_name |-> "Exampleland", city |-> "Example City",
                              latitude |-> 10, longitude |-> 20, org |-> "Example ISP"])) }

\* String.prototype.trim on a list of tokens
RECURSIVE trimStart(_)
trimStart(t) == IF t # <<>> /\ Head(t) \in Whitespace THEN trimStart(Tail(t)) ELSE t
RECURSIVE trimEnd(_)
trimEnd(t) == IF t # <<>> /\ t[Len(t)] \in Whitespace THEN trimEnd(SubSeq(t, 1, Len(t) - 1)) ELSE t
trim(t) == trimEnd(trimStart(t))

\* the string a list of tokens spells, for the texts of one token or none
textOf(t) == IF t = <<>> THEN EmptyString ELSE t[1]

\* a property of an object, undefined if absent
prop(obj, name) == IF name \in DOMAIN obj THEN obj[name] ELSE Undefined

\* truthiness of a string or undefined
truthy(x) == x # Undefined /\ x # EmptyString

\* data.ip || data.address || data.query
addressField(data) ==
    IF truthy(prop(data, "ip")) THEN prop(data, "ip")
    ELSE IF truthy(prop(data, "address")) THEN prop(data, "address")
    ELSE prop(data, "query")

NullResult == [null |-> TRUE]

\* the async callback of IP_SERVICES.map: the result of one service, null if
\* the request or the parsing of the body throws
serviceResult(service, resp) ==
    IF ~resp.net THEN NullResult
    ELSE IF service.name = "icanhazip"
         THEN [service |-> service.name, ip |-> textOf(trim(resp.body.text))]
    ELSE IF ~resp.body.json THEN NullResult
    ELSE [service |-> service.name, ip |-> addressField(resp.body.value)]

\* results.filter(result => result !== null)
validResultsOf(rs) == SelectSeq(rs, LAMBDA r : r # NullResult)

\* new Set(validResults.map(r => r.ip))
uniqueIPsOf(valid) == NewSet([i \in DOMAIN valid |-> valid[i].ip])

\* getIpLocation: whether it throws
getIpLocationThrows(resp) == ~resp.net \/ resp.status \notin 200..299 \/ ~resp.body.json

\* getIpLocation: the value it returns
getIpLocation(ip, resp) ==
    LET data == resp.body.value IN
    [ip |-> ip,
     country |-> IF "country_name" \in DOMAIN data THEN data.country_name ELSE prop(data, "country"),
     city |-> prop(data, "city"),
     lat |-> prop(data, "latitude"),
     lon |-> prop(data, "longitude"),
     isp |-> prop(data, "org")]

\* the value of the outer catch of checkIPAddress
ipError == [error |-> TRUE]

VARIABLES
    ipPhase,      \* checkIPAddress: "idle", "services" (awaiting the service
                  \* requests), "locations" (awaiting getIpLocation) or "done"
    svcResults,   \* the results of the service callbacks, by position in IP_SERVICES
    uniqueIPs,    \* Set uniqueIPs
    locationData, \* the values of the getIpLocation calls, by position in uniqueIPs
    geoData,      \* the state geoData
    ipResult,     \* the value checkIPAddress returned
    svcResponses, \* history: what each service answered
    geoFailed     \* history: the addresses whose geolocation request failed in
                  \* the network or got a non-OK status

ipVars == <<ipPhase, svcResults, uniqueIPs, locationData, geoData, ipResult,
            svcResponses, geoFailed>>

Pending == [pending |-> TRUE]

ipInit ==
    /\ ipPhase = "idle"
    /\ svcResults = [i \in DOMAIN IP_SERVICES |-> Pending]
    /\ uniqueIPs = <<>>
    /\ locationData = <<>>
    /\ geoData = <<>>
    /\ ipResult = NoValue
    /\ svcResponses = [i \in DOMAIN IP_SERVICES |-> Pending]
    /\ geoFailed = {}

\* checkIPAddress up to the await of the service requests
checkIPAddress ==
    /\ ipPhase = "idle"
    /\ ipPhase' = "services"
    /\ UNCHANGED <<svcResults, uniqueIPs, locationData, geoData, ipResult,
                   svcResponses, geoFailed>>

\* the request of one service settles, in any order, and its callback returns
ServiceSettles ==
    /\ ipPhase = "services"
    /\ \E i \in DOMAIN IP_SERVICES :
         /\ svcResults[i] = Pending
         /\ \E resp \in ServiceResponses(IP_SERVICES[i]) :
              /\ svcResults' = [svcResults EXCEPT ![i] = serviceResult(IP_SERVICES[i], resp)]
              /\ svcResponses' = [svcResponses EXCEPT ![i] = resp]
    /\ UNCHANGED <<ipPhase, uniqueIPs, locationData, geoData, ipResult, geoFailed>>

\* Promise.all of the service callbacks is fulfilled: checkIPAddress runs on to
\* the await of the getIpLocation calls, or throws and returns from its catch
ServicesJoined ==
    /\ ipPhase = "services"
    /\ \A i \in DOMAIN svcResults : svcResults[i] # Pending
    /\ LET validResults == validResultsOf(svcResults) IN
       IF Len(validResults) = 0
       THEN /\ ipResult' = ipError
            /\ ipPhase' = "done"
            /\ UNCHANGED <<uniqueIPs, locationData>>
       ELSE /\ uniqueIPs' = uniqueIPsOf(validResults)
            /\ locationData' = [i \in DOMAIN uniqueIPs' |-> Pending]
            /\ ipPhase' = "locations"
            /\ UNCHANGED ipResult
    /\ UNCHANGED <<svcResults, geoData, svcResponses, geoFailed>>

\* a mutant of the failure path: the locations found so far are stored
LocationFails_partial ==
    /\ geoData' = SelectSeq(locationData, LAMBDA l : l # Pending)
    /\ ipResult' = ipError
    /\ ipPhase' = "done"
    /\ UNCHANGED <<svcResults, uniqueIPs, locationData, svcResponses>>

\* a getIpLocation call throws: Promise.all is rejected and checkIPAddress
\* returns from its catch
LocationFails ==
    /\ ipResult' = ipError
    /\ ipPhase' = "done"
    /\ UNCHANGED <<svcResults, uniqueIPs, locationData, geoData, svcResponses>>

\* one getIpLocation call settles, in any order
LocationSettles ==
    /\ ipPhase = "locations"
    /\ \E i \in DOMAIN locationData :
         /\ locationData[i] = Pending
         /\ \E resp \in GeoResponses :
              /\ geoFailed' = IF queryFailed(resp) THEN geoFailed \cup {uniqueIPs[i]}
                               ELSE geoFailed
              /\ IF getIpLocationThrows(resp)
                 THEN LocationFails
                 ELSE /\ locationData' = [locationData EXCEPT ![i] = getIpLocation(uniqueIPs[i], resp)]
                      /\ UNCHANGED <<ipPhase, svcResults, uniqueIPs, geoData, ipResult,
                                     svcResponses>>

\* the verdict of checkIPAddress
ipVerdict(validResults, unique, locations) ==
    [ip |-> validResults[1].ip, allIPs |-> unique, consistent |-> Len(unique) = 1,
     locations |-> locations]

\* Promise.all of the getIpLocation calls is fulfilled: setGeoData, then the
\* verdict, or the catch if the first valid result has no address
LocationsJoined ==
    /\ ipPhase = "locations"
    /\ \A i \in DOMAIN locationData : locationData[i] # Pending
    /\ geoData' = locationData
    /\ LET validResults == validResultsOf(svcResults) IN
       ipResult' = IF ~truthy(validResults[1].ip) THEN ipError
                   ELSE ipVerdict(validResults, uniqueIPs, locationData)
    /\ ipPhase' = "done"
    /\ UNCHANGED <<svcResults, uniqueIPs, locationData, svcResponses, geoFailed>>

(***************************************************************************)
(* The orchestrator: startAllTests, runBasicTests and                      *)
(* handleAdvancedTestsComplete of VPNLeakTester, and the secondary tests   *)
(* of AdvancedNetworkTests (runTests, runTest).                            *)
(*                                                                         *)
(* The probes are taken by what they return.  A detail line is a tuple of  *)
(* its parts.                                                              *)
(***************************************************************************)
PrimaryKeys == {"webRTC", "dns", "ipAddress"}

\* the secondary tests, in the order in which runTests runs them
AdvOrder == <<"timezone", "network", "fingerprint", "traffic">>
AdvKeys == Range(AdvOrder)

\* checkBrowserFingerprint is not async: it returns or throws within the call
SyncProbes == {"fingerprint"}

Terminal == {"passed", "failed", "error"}

TestResult(status, message, details) ==
    [status |-> status, message |-> message, details |-> details]

NotTested == TestResult("pending", "Not tested", <<>>)
Testing == TestResult("running", "Testing...", <<>>)

\* list.join(', ') || 'None'
joinOrNone(list) == IF list = <<>> THEN <<"None">> ELSE list

\* a mutant of the outcome: the error flag of the result is shown as error
webRTCOutcome_error(r) ==
    TestResult(IF "error" \in DOMAIN r THEN "error" ELSE IF r.leaked THEN "failed" ELSE "passed",
               IF r.leaked THEN "WebRTC leak detected!" ELSE "No WebRTC leaks detected",
               << <<"Total IPs found", Len(r.ips)>>,
                  <<"Local IPs", joinOrNone(IF "localIps" \in DOMAIN r THEN r.localIps ELSE <<>>)>>,
                  <<"Public IPs", joinOrNone(IF "publicIps" \in DOMAIN r THEN r.publicIps ELSE <<>>)>>,
                  <<"IPv6 IPs", joinOrNone(IF "ipv6Ips" \in DOMAIN r THEN r.ipv6Ips ELSE <<>>)>> >>)

\* the outcome runBasicTests writes for a result of checkWebRTCLeak
webRTCOutcome(r) ==
    TestResult(IF r.leaked THEN "failed" ELSE "passed",
               IF r.leaked THEN "WebRTC leak detected!" ELSE "No WebRTC leaks detected",
               << <<"Total IPs found", Len(r.ips)>>,
                  <<"Local IPs", joinOrNone(IF "localIps" \in DOMAIN r THEN r.localIps ELSE <<>>)>>,
                  <<"Public IPs", joinOrNone(IF "publicIps" \in DOMAIN r THEN r.publicIps ELSE <<>>)>>,
                  <<"IPv6 IPs", joinOrNone(IF "ipv6Ips" \in DOMAIN r THEN r.ipv6Ips ELSE <<>>)>> >>)

\* the outcome runBasicTests writes for a result of checkDNSLeaks
dnsOutcome(r) ==
    TestResult(IF r.leaked THEN "failed" ELSE "passed", r.message,
               [i \in DOMAIN r.results |-> r.results[i]])

\* the outcome runBasicTests writes for a result of checkIPAddress
ipOutcome(r) ==
    IF "error" \in DOMAIN r
    THEN TestResult("error", "Error checking IP", <<>>)
    ELSE TestResult(IF r.consistent THEN "passed" ELSE "failed",
                    IF r.consistent THEN "IP address verified" ELSE "Inconsistent IPs detected",
                    << <<"Current IP", r.ip>>, <<"All IPs", r.allIPs>> >>)

\* results of checkWebRTCLeak: of the catch handler, and of the timer callback
\* without and with a leak
WebRTCResults ==
    { errorResult,
      [leaked |-> FALSE, ips |-> <<IPa>>, localIps |-> <<>>, publicIps |-> <<IPa>>,
       ipv6Ips |-> <<>>],
      [leaked |-> TRUE, ips |-> <<IPa, IPb>>, localIps |-> <<>>, publicIps |-> <<IPa, IPb>>,
       ipv6Ips |-> <<>>] }

\* results of checkDNSLeaks
DNSResults ==
    { [leaked |-> FALSE, results |-> <<>>, message |-> dnsMessage(noLeak)],
      [leaked |-> TRUE,
       results |-> << [server |-> "Cloudflare", domain |-> "google.com", ipv4 |-> <<Addr1>>,
                       ipv6 |-> <<>>, reversePtr |-> Undefined],
                      [server |-> "Google", domain |-> "google.com", ipv4 |-> <<Addr2>>,
                       ipv6 |-> <<>>, reversePtr |-> Undefined] >>,
       message |-> dnsMessage([inconsistentIPv4 |-> TRUE, inconsistentIPv6 |-> FALSE,
                               mismatchedPtr |-> FALSE])] }

SomeLocation(ip) ==
    [ip |-> ip, country |-> "Exampleland", city |-> "Example City", lat |-> 10, lon |-> 20,
     isp |-> "Example ISP"]

\* runs of checkIPAddress: the value returned and the value given to setGeoData,
\* if it was called
IPRuns ==
    { [result |-> ipError, setGeoData |-> FALSE, locations |-> <<>>],
      [result |-> ipError, setGeoData |-> TRUE, locations |-> <<SomeLocation(EmptyString)>>],
      [result |-> ipVerdict(<<[service |-> "ipify", ip |-> IPa]>>, <<IPa>>, <<SomeLocation(IPa)>>),
       setGeoData |-> TRUE, locations |-> <<SomeLocation(IPa)>>],
      [result |-> ipVerdict(<<[service |-> "ipify", ip |-> IPa]>>, <<IPa, IPb>>,
                            <<SomeLocation(IPa), SomeLocation(IPb)>>),
       setGeoData |-> TRUE, locations |-> <<SomeLocation(IPa), SomeLocation(IPb)>>] }

\* the messages of the secondary probes, without and with leaks
ProbeMessages ==
    [timezone |-> <<"No timezone leaks detected", "Timezone leaks detected">>,
     network |-> <<"Network analysis complete", "Network anomalies detected">>,
     fingerprint |-> <<"Browser fingerprint analysis complete",
                       "Browser fingerprint inconsistencies detected">>,
     traffic |-> <<"Traffic analysis complete", "Traffic anomalies detected">>]

\* the value a secondary probe returns
probeResult(key, lines, leaks) ==
    TestResult(IF Len(leaks) > 0 THEN "failed" ELSE "passed",
               IF Len(leaks) > 0 THEN ProbeMessages[key][2] ELSE ProbeMessages[key][1],
               lines \o leaks)

\* the outcome of the catch of runTest
errorOutcome(initialState) ==
    TestResult("error", "Test completed with some issues", initialState.details)

\* a mutant of the updater: every test is set to running
markPendingRunning_all(prev) == [k \in AdvKeys |-> Testing]

\* the updater of setTests in runTests: the pending tests are set to running
markPendingRunning(prev) ==
    [k \in AdvKeys |-> IF prev[k].status = "pending" THEN Testing ELSE prev[k]]

\* the first test from position idx on that runTests runs: one that is pending
\* in currentState; Len(AdvOrder) + 1 if there is none
RECURSIVE nextPending(_, _)
nextPending(idx, currentState) ==
    IF idx > Len(AdvOrder) THEN idx
    ELSE IF currentState[AdvOrder[idx]].status = "pending" THEN idx
    ELSE nextPending(idx + 1, currentState)

VARIABLES
    tests,             \* VPNLeakTester: the state tests
    isRunning,         \* VPNLeakTester: the state isRunning
    shouldRunAdvanced, \* VPNLeakTester: the state shouldRunAdvanced
    basicPc,           \* runBasicTests: "idle", or the probe it awaits
    advTests,          \* AdvancedNetworkTests: the state tests
    isLocalRunning,    \* AdvancedNetworkTests: the state isLocalRunning
    triggered,         \* whether the effect of triggerTests has yet to run
    currentState,      \* tests as runTests and runTest see it in their closure
    advIdx,            \* runTests: the position in AdvOrder, 0 if it is not running
    advPc,             \* runTest: "idle", "race" (awaiting Promise.race) or "delay"
    probe,             \* the secondary probes: "idle", "running" or "settled"
    gathered,          \* the detail lines the probe that runTest awaits has pushed
                       \* to its results
    threw,             \* history: the primary probes that threw in this run
    timedOut           \* history: the tests whose timer fired before the probe settled

orchVars == <<tests, isRunning, shouldRunAdvanced, basicPc, advTests, isLocalRunning,
              triggered, currentState, advIdx, advPc, probe, gathered,
              threw, timedOut>>

\* the variables of checkIPAddress other than the state geoData
ipProbeVars == <<ipPhase, svcResults, uniqueIPs, locationData, ipResult, svcResponses,
                 geoFailed>>

orchInit ==
    /\ tests = [t \in PrimaryKeys |-> NotTested]
    /\ isRunning = FALSE
    /\ shouldRunAdvanced = FALSE
    /\ basicPc = "idle"
    /\ advTests = [k \in AdvKeys |-> NotTested]
    /\ isLocalRunning = FALSE
    /\ triggered = FALSE
    /\ currentState = [k \in AdvKeys |-> NotTested]
    /\ advIdx = 0
    /\ advPc = "idle"
    /\ probe = [k \in AdvKeys |-> "idle"]
    /\ gathered = <<>>
    /\ threw = {}
    /\ timedOut = {}

\* a mutant of startAllTests: the guard on isRunning is missing
startAllTests_noGuard ==
    /\ isRunning' = TRUE
    /\ geoData' = <<>>
    /\ shouldRunAdvanced' = FALSE
    /\ tests' = [webRTC |-> TestResult("running", "Testing WebRTC...", <<>>),
                 dns |-> TestResult("running", "Testing DNS...", <<>>),
                 ipAddress |-> TestResult("running", "Checking IP...", <<>>)]
    /\ basicPc' = "webRTC"
    /\ threw' = {}
    /\ triggered' = FALSE
    /\ UNCHANGED <<advTests, isLocalRunning, currentState, advIdx, advPc, probe, gathered,
                   timedOut>>

\* startAllTests up to the await of checkWebRTCLeak in runBasicTests
startAllTests ==
    /\ ~isRunning
    /\ isRunning' = TRUE
    /\ geoData' = <<>>
    /\ shouldRunAdvanced' = FALSE
    /\ tests' = [webRTC |-> TestResult("running", "Testing WebRTC...", <<>>),
                 dns |-> TestResult("running", "Testing DNS...", <<>>),
                 ipAddress |-> TestResult("running", "Checking IP...", <<>>)]
    /\ basicPc' = "webRTC"
    /\ threw' = {}
    /\ triggered' = FALSE
    /\ UNCHANGED <<advTests, isLocalRunning, currentState, advIdx, advPc, probe, gathered,
                   timedOut>>

\* runBasicTests returns to startAllTests, which calls setShouldRunAdvanced(true):
\* the effect of AdvancedNetworkTests is due
basicTestsReturn ==
    /\ basicPc' = "idle"
    /\ shouldRunAdvanced' = TRUE
    /\ triggered' = ~shouldRunAdvanced

\* checkWebRTCLeak resolves: runBasicTests writes the outcome and calls checkDNSLeaks
WebRTCResolves ==
    /\ basicPc = "webRTC"
    /\ \E r \in WebRTCResults : tests' = [tests EXCEPT !.webRTC = webRTCOutcome(r)]
    /\ basicPc' = "dns"
    /\ UNCHANGED <<isRunning, shouldRunAdvanced, geoData, advTests, isLocalRunning, triggered,
                   currentState, advIdx, advPc, probe, gathered, threw, timedOut>>

\* checkWebRTCLeak rejects (the executor throws, new RTCPeerConnection or
\* createDataChannel failed): the catch of runBasicTests logs the error
WebRTCRejects ==
    /\ basicPc = "webRTC"
    /\ basicTestsReturn
    /\ threw' = threw \cup {"webRTC"}
    /\ UNCHANGED <<tests, isRunning, geoData, advTests, isLocalRunning, currentState, advIdx,
                   advPc, probe, gathered, timedOut>>

\* checkDNSLeaks returns: runBasicTests writes the outcome and calls checkIPAddress
DNSReturns ==
    /\ basicPc = "dns"
    /\ \E r \in DNSResults : tests' = [tests EXCEPT !.dns = dnsOutcome(r)]
    /\ basicPc' = "ipAddress"
    /\ UNCHANGED <<isRunning, shouldRunAdvanced, geoData, advTests, isLocalRunning, triggered,
                   currentState, advIdx, advPc, probe, gathered, threw, timedOut>>

\* checkIPAddress returns: runBasicTests writes the outcome and returns
IPReturns ==
    /\ basicPc = "ipAddress"
    /\ \E run \in IPRuns :
         /\ tests' = [tests EXCEPT !.ipAddress = ipOutcome(run.result)]
         /\ geoData' = IF run.setGeoData THEN run.locations ELSE geoData
    /\ basicTestsReturn
    /\ UNCHANGED <<isRunning, advTests, isLocalRunning, currentState, advIdx, advPc, probe,
                   gathered, threw, timedOut>>

\* a mutant of the callback: isRunning is not reset
handleAdvancedTestsComplete_keepRunning ==
    /\ isRunning' = isRunning
    /\ shouldRunAdvanced' = FALSE

\* handleAdvancedTestsComplete, called as onTestComplete
handleAdvancedTestsComplete ==
    /\ isRunning' = FALSE
    /\ shouldRunAdvanced' = FALSE

\* runTests goes on from position idx of AdvOrder, with the tests as ts and the
\* probes as pr: it calls runTest for the next test that is pending in
\* currentState, which sets the test to running, calls the probe and arms the
\* timer; after the last test it calls onTestComplete
runTestsFrom(idx, ts, cs, pr) ==
    LET n == nextPending(idx, cs) IN
    IF n > Len(AdvOrder)
    THEN /\ advTests' = ts
         /\ isLocalRunning' = FALSE
         /\ handleAdvancedTestsComplete
         /\ advIdx' = 0
         /\ advPc' = "idle"
         /\ probe' = pr
         /\ UNCHANGED gathered
    ELSE /\ advTests' = [ts EXCEPT ![AdvOrder[n]] = Testing]
         /\ isLocalRunning' = TRUE
         /\ advIdx' = n
         /\ advPc' = "race"
         /\ probe' = [pr EXCEPT ![AdvOrder[n]] = "running"]
         /\ gathered' = <<>>
         /\ UNCHANGED <<isRunning, shouldRunAdvanced>>

\* the effect of triggerTests: setIsLocalRunning(true) and runTests() up to its
\* first await
TriggerEffect ==
    /\ triggered
    /\ triggered' = FALSE
    /\ IF shouldRunAdvanced /\ ~isLocalRunning
       THEN /\ currentState' = advTests
            /\ runTestsFrom(1, markPendingRunning(advTests), advTests, probe)
       ELSE UNCHANGED <<currentState, advTests, isLocalRunning, advIdx, advPc, probe,
                        gathered, isRunning, shouldRunAdvanced>>
    /\ UNCHANGED <<tests, geoData, basicPc, threw, timedOut>>

\* whether Promise.race of the runTest of test key is pending
racePending(key) == advPc = "race" /\ advIdx > 0 /\ AdvOrder[advIdx] = key

\* the probe runTest awaits pushes a line to its results (what a probe pushes
\* after its race is settled is never read)
ProbeGathers ==
    /\ \E key \in AdvKeys :
         /\ racePending(key)
         /\ probe[key] = "running"
         /\ Len(gathered) < MaxLines
         /\ gathered' = Append(gathered, <<key, Len(gathered) + 1>>)
    /\ UNCHANGED <<tests, isRunning, shouldRunAdvanced, geoData, basicPc, advTests,
                   isLocalRunning, triggered, currentState, advIdx, advPc, probe,
                   threw, timedOut>>

\* a probe returns, after it has pushed its lines: if the race is pending,
\* runTest writes the result and awaits delay(2000)
probeReturns(key) ==
    /\ probe[key] = "running"
    /\ probe' = [probe EXCEPT ![key] = "settled"]
    /\ IF racePending(key)
       THEN /\ Len(gathered) = MaxLines
            /\ \E leaks \in {<<>>, <<<<key, "leak">>>>} :
                  advTests' = [advTests EXCEPT ![key] = probeResult(key, gathered, leaks)]
            /\ advPc' = "delay"
       ELSE UNCHANGED <<advTests, advPc>>
    /\ UNCHANGED <<tests, isRunning, shouldRunAdvanced, geoData, basicPc, isLocalRunning,
                   triggered, currentState, advIdx, gathered, threw, timedOut>>

\* the catch of runTest for the test at advIdx: the outcome is error, runTest
\* returns and runTests goes on
runTestCatch(key, pr) ==
    runTestsFrom(advIdx + 1,
                 [advTests EXCEPT ![key] = errorOutcome(currentState[key])],
                 currentState, pr)

ProbeReturns == \E key \in AdvKeys : probeReturns(key)

\* a probe throws
probeThrows(key) ==
    /\ probe[key] = "running"
    /\ IF racePending(key)
       THEN runTestCatch(key, [probe EXCEPT ![key] = "settled"])
       ELSE /\ probe' = [probe EXCEPT ![key] = "settled"]
            /\ UNCHANGED <<advTests, isLocalRunning, advIdx, advPc, gathered,
                           isRunning, shouldRunAdvanced>>
    /\ UNCHANGED <<tests, geoData, basicPc, triggered, currentState, threw, timedOut>>

ProbeThrows == \E key \in AdvKeys : probeThrows(key)

\* the call of a probe that is not async returns or throws
SyncProbeSettles == \E key \in SyncProbes : probeReturns(key) \/ probeThrows(key)

\* a mutant of the timer callback: the race is not rejected
DeadlineFires_noReject ==
    /\ \E key \in AdvKeys : racePending(key) /\ timedOut' = timedOut \cup {key}
    /\ UNCHANGED <<tests, isRunning, shouldRunAdvanced, geoData, basicPc, advTests,
                   isLocalRunning, triggered, currentState, advIdx, advPc, probe, gathered,
                   threw>>

\* the callback of setTimeout(..., 30000) of runTest while the race is pending.
\* The timer is never cleared: when it fires after the race was settled, the
\* rejection has no effect.  A probe that is not async has returned before any
\* timer callback runs.
DeadlineFires ==
    /\ \E key \in AdvKeys :
         /\ racePending(key)
         /\ ~(key \in SyncProbes /\ probe[key] = "running")
         /\ runTestCatch(key, probe)
         /\ timedOut' = timedOut \cup {key}
    /\ UNCHANGED <<tests, geoData, basicPc, triggered, currentState, threw>>

\* delay(2000) of runTest elapses: runTest returns and runTests goes on
DelayElapses ==
    /\ advPc = "delay"
    /\ runTestsFrom(advIdx + 1, advTests, currentState, probe)
    /\ UNCHANGED <<tests, geoData, basicPc, triggered, currentState, threw, timedOut>>

(***************************************************************************)
(* The secondary probes checkTimezoneLeaks, checkNetworkInterfaces and     *)
(* analyzeTrafficPatterns of AdvancedNetworkTests, by their sub-requests,  *)
(* and safeFetch.  A time is a whole number of milliseconds; the mean and  *)
(* the standard deviation are compared with their thresholds in exact      *)
(* arithmetic (the source computes them in floating point).               *)
(***************************************************************************)
timeServices == << [url |-> "https://httpbin.org/get", name |-> "HTTP Bin Get"],
                   [url |-> "https://httpbin.org/status/200", name |-> "HTTP Bin Status"] >>

packetSizes == <<1500, 1400, 1300, 1200>>

testUrls == <<"https://httpbin.org/get", "https://httpbin.org/status/200",
              "https://httpbin.org/delay/1">>

\* for (let i = 0; i < 5; i++)
TrafficRequests == 5
\* time > 100 of checkNetworkInterfaces
SlowRequest == 100
\* avgLatency > 100
LatencyThreshold == 100
\* stdDev > 50
DeviationThreshold == 50

\* How the fetch inside safeFetch (cross-origin, mode no-cors) ends: it rejects
\* (network error), it rejects because the AbortController aborted it after
\* 5000 ms, or it resolves with an opaque response, after the time measured
\* around it: 0, 100 or 150 ms, around the thresholds.
SafeFetchOutcomes ==
    {[kind |-> "rejected", ok |-> FALSE, time |-> 0],
     [kind |-> "aborted", ok |-> FALSE, time |-> 5000]}
    \cup { [kind |-> "opaque", ok |-> FALSE, time |-> t] : t \in {0, 100, 150} }

\* safeFetch: response.type === 'opaque' ? true : response.ok, false in the catch
safeFetch(resp) ==
    IF resp.kind \in {"rejected", "aborted"} THEN FALSE
    ELSE IF resp.kind = "opaque" THEN TRUE ELSE resp.ok

\* list.reduce((a, b) => a + b, 0)
RECURSIVE Sum(_)
Sum(list) == IF list = <<>> THEN 0 ELSE Head(list) + Sum(Tail(list))

\* avgLatency > 100 for avgLatency = Sum(ms) / ms.length
avgExceeds(ms) == Sum(ms) > LatencyThreshold * Len(ms)

\* measurements.reduce((a, b) => a + Math.pow(b - avgLatency, 2), 0), times the
\* square of ms.length
SqDevSum(ms) == Sum([i \in DOMAIN ms |-> (Len(ms) * ms[i] - Sum(ms)) * (Len(ms) * ms[i] - Sum(ms))])

\* a mutant of the deviation: the sum of squares is divided by ms.length - 1
stdDevExceeds_sample(ms) ==
    SqDevSum(ms) > DeviationThreshold * DeviationThreshold * Len(ms) * Len(ms) * (Len(ms) - 1)

\* stdDev > 50 for stdDev = Math.sqrt(sum of squares / ms.length)
stdDevExceeds(ms) ==
    SqDevSum(ms) > DeviationThreshold * DeviationThreshold * Len(ms) * Len(ms) * Len(ms)

VARIABLES
    subProbe,     \* the probe that was called: "none", "timezone", "network" or "traffic"
    subStep,      \* the number of the next sub-request of the probe
    subResults,   \* the list results of the probe
    subLeaks,     \* the list leaks of the probe
    measurements, \* the list measurements of analyzeTrafficPatterns
    subReturn,    \* the value the probe returned
    subOutcomes   \* history: how the sub-requests made so far ended

subVars == <<subProbe, subStep, subResults, subLeaks, measurements, subReturn, subOutcomes>>

subInit ==
    /\ subProbe = "none"
    /\ subStep = 1
    /\ subResults = <<>>
    /\ subLeaks = <<>>
    /\ measurements = <<>>
    /\ subReturn = NoValue
    /\ subOutcomes = <<>>

\* the first definition of checkTimezoneLeaks, up to the first time service
checkTimezoneLeaks ==
    /\ subProbe = "none"
    /\ subProbe' = "timezone"
    /\ subResults' = << <<"System timezone">>, <<"UTC offset">>, <<"Locale date string">> >>
    /\ UNCHANGED <<subStep, subLeaks, measurements, subReturn, subOutcomes>>

\* the body of the loop over timeServices: its fetch, which has no
\* AbortController, rejects or resolves with an opaque or a basic response
TimeServiceSettles ==
    /\ subProbe = "timezone"
    /\ subReturn = NoValue
    /\ subStep <= Len(timeServices)
    /\ \E resp \in {[kind |-> "rejected", ok |-> FALSE, time |-> 0],
                    [kind |-> "opaque", ok |-> FALSE, time |-> 0],
                    [kind |-> "basic", ok |-> TRUE, time |-> 0]} :
         LET name == timeServices[subStep].name IN
         /\ subResults' = Append(subResults,
                                 IF resp.kind = "rejected"
                                 THEN <<"Error checking time service", name>>
                                 ELSE IF resp.kind = "opaque"
                                 THEN <<"Successfully connected to time service", name>>
                                 ELSE <<"Failed to connect to time service", name>>)
         /\ subOutcomes' = Append(subOutcomes, resp)
    /\ subStep' = subStep + 1
    /\ UNCHANGED <<subProbe, subLeaks, measurements, subReturn>>

\* the return statement of either definition of checkTimezoneLeaks
TimezoneReturns ==
    /\ subProbe \in {"timezone", "timezoneLookup"}
    /\ subReturn = NoValue
    /\ subStep > (IF subProbe = "timezoneLookup" THEN 1 ELSE 0) + Len(timeServices)
    /\ subReturn' = probeResult("timezone", subResults, subLeaks)
    /\ UNCHANGED <<subProbe, subStep, subResults, subLeaks, measurements, subOutcomes>>

\* how the lookup fetch('https://ipapi.co/json/').then(res => res.json()) ends:
\* the fetch rejects, the body is not JSON, or the body is a record of a country
LookupOutcomes ==
    { [kind |-> k, ok |-> FALSE, time |-> 0] : k \in {"rejected", "badJson"} }
    \cup { [kind |-> "json", ok |-> TRUE, time |-> 0, country_code |-> c] : c \in {"US", "DE"} }

\* the second definition of checkTimezoneLeaks, up to its lookup
checkTimezoneLeaksLookup ==
    /\ subProbe = "none"
    /\ subProbe' = "timezoneLookup"
    /\ subResults' = << <<"System timezone">>, <<"UTC offset">>, <<"Locale date string">> >>
    /\ UNCHANGED <<subStep, subLeaks, measurements, subReturn, subOutcomes>>

\* the lookup settles and the region is compared with its country
LocationLookupSettles ==
    /\ subProbe = "timezoneLookup"
    /\ subStep = 1
    /\ \E resp \in LookupOutcomes, timezoneRegion \in {"America", "Europe"} :
         \* .catch(() => null)
         LET userLocation == IF resp.kind = "json" THEN resp ELSE NoValue IN
         /\ subLeaks' = IF /\ timezoneRegion = "America"
                           /\ userLocation # NoValue
                           /\ userLocation.country_code # "US"
                        THEN Append(subLeaks, <<"Timezone indicates US location but IP location shows",
                                                userLocation.country_code>>)
                        ELSE subLeaks
         /\ subOutcomes' = Append(subOutcomes, resp)
    /\ subStep' = subStep + 1
    /\ UNCHANGED <<subProbe, subResults, measurements, subReturn>>

\* the body of the loop over timeServices of the second definition
TimeServiceSafeSettles ==
    /\ subProbe = "timezoneLookup"
    /\ subStep > 1
    /\ subStep <= 1 + Len(timeServices)
    /\ \E resp \in SafeFetchOutcomes :
         LET name == timeServices[subStep - 1].name IN
         /\ subResults' = Append(subResults,
                                 IF safeFetch(resp)
                                 THEN <<"Successfully connected to time service", name>>
                                 ELSE <<"Failed to connect to time service", name>>)
         /\ subOutcomes' = Append(subOutcomes, resp)
    /\ subStep' = subStep + 1
    /\ UNCHANGED <<subProbe, subLeaks, measurements, subReturn>>

\* checkNetworkInterfaces up to the first request
checkNetworkInterfaces ==
    /\ subProbe = "none"
    /\ subProbe' = "network"
    /\ UNCHANGED <<subStep, subResults, subLeaks, measurements, subReturn, subOutcomes>>

\* Part 1, the body of the loop over packetSizes
PacketSizeSettles ==
    /\ subProbe = "network"
    /\ subStep <= Len(packetSizes)
    /\ \E resp \in SafeFetchOutcomes :
         LET size == packetSizes[subStep] IN
         /\ subResults' = Append(subResults,
                                 IF safeFetch(resp) THEN <<"Packet size", size, resp.time>>
                                 ELSE <<"Failed to test packet size", size>>)
         /\ subLeaks' = IF safeFetch(resp) /\ resp.time > SlowRequest
                        THEN Append(subLeaks, <<"Possible MTU fragmentation at", size>>)
                        ELSE subLeaks
         /\ subOutcomes' = Append(subOutcomes, resp)
    /\ subStep' = subStep + 1
    /\ UNCHANGED <<subProbe, measurements, subReturn>>

\* Part 2, the body of the loop over testUrls
TestUrlSettles ==
    /\ subProbe = "network"
    /\ subStep > Len(packetSizes)
    /\ subStep <= Len(packetSizes) + Len(testUrls)
    /\ \E resp \in SafeFetchOutcomes :
         LET url == testUrls[subStep - Len(packetSizes)] IN
         /\ subResults' = Append(subResults,
                                 IF safeFetch(resp) THEN <<"Request to", url, resp.time>>
                                 ELSE <<"Failed to connect to", url>>)
         /\ subLeaks' = IF safeFetch(resp) /\ resp.time > SlowRequest
                        THEN Append(subLeaks, <<"High latency detected for", url>>)
                        ELSE subLeaks
         /\ subOutcomes' = Append(subOutcomes, resp)
    /\ subStep' = subStep + 1
    /\ UNCHANGED <<subProbe, measurements, subReturn>>

\* Part 3, for a browser with navigator.connection (without values) and one
\* without, and the return statement
NetworkReturns ==
    /\ subProbe = "network"
    /\ subReturn = NoValue
    /\ subStep > Len(packetSizes) + Len(testUrls)
    /\ \E present \in BOOLEAN :
         /\ subResults' = subResults \o
                IF present
                THEN << <<"Connection type", "unknown">>, <<"Effective type", "unknown">>,
                        <<"Downlink", "unknown">>, <<"RTT", "unknown">> >>
                ELSE <<>>
         /\ subReturn' = probeResult("network", subResults', subLeaks)
    /\ UNCHANGED <<subProbe, subStep, subLeaks, measurements, subOutcomes>>

\* analyzeTrafficPatterns up to the first request
analyzeTrafficPatterns ==
    /\ subProbe = "none"
    /\ subProbe' = "traffic"
    /\ UNCHANGED <<subStep, subResults, subLeaks, measurements, subReturn, subOutcomes>>

\* the body of the loop of analyzeTrafficPatterns
TrafficRequestSettles ==
    /\ subProbe = "traffic"
    /\ subStep <= TrafficRequests
    /\ \E resp \in SafeFetchOutcomes :
         /\ measurements' = IF safeFetch(resp) THEN Append(measurements, resp.time)
                            ELSE measurements
         /\ subResults' = Append(subResults,
                                 IF safeFetch(resp) THEN <<"Request", subStep, "latency", resp.time>>
                                 ELSE <<"Request", subStep, "failed">>)
         /\ subOutcomes' = Append(subOutcomes, resp)
    /\ subStep' = subStep + 1
    /\ UNCHANGED <<subProbe, subLeaks, subReturn>>

\* after the loop: the lines of the mean (as the pair of the sum and the number
\* of measurements) and of the deviation, the leaks and the return statement
TrafficReturns ==
    /\ subProbe = "traffic"
    /\ subReturn = NoValue
    /\ subStep > TrafficRequests
    /\ subResults' = subResults \o
           IF Len(measurements) > 0
           THEN << <<"Average latency", Sum(measurements), Len(measurements)>>,
                   <<"Latency standard deviation", SqDevSum(measurements), Len(measurements)>> >>
           ELSE <<>>
    /\ subLeaks' = subLeaks \o
           IF Len(measurements) > 0
           THEN (IF avgExceeds(measurements)
                 THEN <<<<"High average latency detected - possible VPN usage">>>> ELSE <<>>)
                \o (IF stdDevExceeds(measurements)
                    THEN <<<<"High latency variation detected - possible VPN usage">>>> ELSE <<>>)
           ELSE <<>>
    /\ subReturn' = probeResult("traffic", subResults', subLeaks')
    /\ UNCHANGED <<subProbe, subStep, measurements, subOutcomes>>


(***************************************************************************)
(* Specifications of the peer-connection probe.                            *)
(***************************************************************************)
vars == <<rtcVars, dnsVars, ipVars, orchVars, subVars>>

Init == rtcInit /\ dnsInit /\ ipInit /\ orchInit /\ subInit

NextRTC ==
    \/ checkWebRTCLeak /\ UNCHANGED <<dnsVars, ipVars, orchVars, subVars>>
    \/ OnIceCandidate /\ UNCHANGED <<dnsVars, ipVars, orchVars, subVars>>
    \/ CreateOfferFulfilled /\ UNCHANGED <<dnsVars, ipVars, orchVars, subVars>>
    \/ CreateOfferRejected /\ UNCHANGED <<dnsVars, ipVars, orchVars, subVars>>
    \/ SetLocalDescriptionFulfilled /\ UNCHANGED <<dnsVars, ipVars, orchVars, subVars>>
    \/ SetLocalDescriptionRejected /\ UNCHANGED <<dnsVars, ipVars, orchVars, subVars>>
    \/ TimerFires /\ UNCHANGED <<dnsVars, ipVars, orchVars, subVars>>

SpecRTC == Init /\ [][NextRTC]_vars

\* the event loop runs the callback of an armed timer
FairSpecRTC == SpecRTC /\ WF_vars(TimerFires /\ UNCHANGED <<dnsVars, ipVars, orchVars, subVars>>)

NextClassify ==
    \/ checkWebRTCLeak /\ UNCHANGED <<dnsVars, ipVars, orchVars, subVars>>
    \/ ClassifyCandidate /\ UNCHANGED <<dnsVars, ipVars, orchVars, subVars>>
    \/ ReclassifyCandidate /\ UNCHANGED <<dnsVars, ipVars, orchVars, subVars>>

SpecClassify == Init /\ [][NextClassify]_vars

(***************************************************************************)
(* Specification of the resolver probe.                                    *)
(***************************************************************************)
NextDNS ==
    \/ checkDNSLeaks /\ UNCHANGED <<rtcVars, ipVars, orchVars, subVars>>
    \/ ResolvePair /\ UNCHANGED <<rtcVars, ipVars, orchVars, subVars>>
    \/ AnalyzeAndReturn /\ UNCHANGED <<rtcVars, ipVars, orchVars, subVars>>

SpecDNS == Init /\ [][NextDNS]_vars


(***************************************************************************)
(* Specification of the address-identification probe.                      *)
(***************************************************************************)
NextIP ==
    \/ checkIPAddress /\ UNCHANGED <<rtcVars, dnsVars, orchVars, subVars>>
    \/ ServiceSettles /\ UNCHANGED <<rtcVars, dnsVars, orchVars, subVars>>
    \/ ServicesJoined /\ UNCHANGED <<rtcVars, dnsVars, orchVars, subVars>>
    \/ LocationSettles /\ UNCHANGED <<rtcVars, dnsVars, orchVars, subVars>>
    \/ LocationsJoined /\ UNCHANGED <<rtcVars, dnsVars, orchVars, subVars>>

SpecIP == Init /\ [][NextIP]_vars


(***************************************************************************)
(* Specifications of the orchestrator.                                     *)
(***************************************************************************)
NextOrch ==
    \/ startAllTests /\ UNCHANGED <<rtcVars, dnsVars, ipProbeVars, subVars>>
    \/ WebRTCResolves /\ UNCHANGED <<rtcVars, dnsVars, ipProbeVars, subVars>>
    \/ WebRTCRejects /\ UNCHANGED <<rtcVars, dnsVars, ipProbeVars, subVars>>
    \/ DNSReturns /\ UNCHANGED <<rtcVars, dnsVars, ipProbeVars, subVars>>
    \/ IPReturns /\ UNCHANGED <<rtcVars, dnsVars, ipProbeVars, subVars>>
    \/ TriggerEffect /\ UNCHANGED <<rtcVars, dnsVars, ipProbeVars, subVars>>
    \/ ProbeGathers /\ UNCHANGED <<rtcVars, dnsVars, ipProbeVars, subVars>>
    \/ ProbeReturns /\ UNCHANGED <<rtcVars, dnsVars, ipProbeVars, subVars>>
    \/ ProbeThrows /\ UNCHANGED <<rtcVars, dnsVars, ipProbeVars, subVars>>
    \/ DeadlineFires /\ UNCHANGED <<rtcVars, dnsVars, ipProbeVars, subVars>>
    \/ DelayElapses /\ UNCHANGED <<rtcVars, dnsVars, ipProbeVars, subVars>>

SpecOrch == Init /\ [][NextOrch]_vars

\* The event loop runs the callbacks of the timers and the effect that is due;
\* the primary probes settle (the peer-connection probe by its own timer, the
\* other two when their requests do).  A secondary probe need not settle,
\* unless it is not async.
FairSpecOrch ==
    /\ SpecOrch
    /\ WF_vars((WebRTCResolves \/ WebRTCRejects) /\ UNCHANGED <<rtcVars, dnsVars, ipProbeVars, subVars>>)
    /\ WF_vars(DNSReturns /\ UNCHANGED <<rtcVars, dnsVars, ipProbeVars, subVars>>)
    /\ WF_vars(IPReturns /\ UNCHANGED <<rtcVars, dnsVars, ipProbeVars, subVars>>)
    /\ WF_vars(TriggerEffect /\ UNCHANGED <<rtcVars, dnsVars, ipProbeVars, subVars>>)
    /\ WF_vars(DeadlineFires /\ UNCHANGED <<rtcVars, dnsVars, ipProbeVars, subVars>>)
    /\ WF_vars(DelayElapses /\ UNCHANGED <<rtcVars, dnsVars, ipProbeVars, subVars>>)
    /\ WF_vars(SyncProbeSettles /\ UNCHANGED <<rtcVars, dnsVars, ipProbeVars, subVars>>)


(***************************************************************************)
(* Specifications of the secondary probes.                                 *)
(***************************************************************************)
NextProbes ==
    \/ checkTimezoneLeaks /\ UNCHANGED <<rtcVars, dnsVars, ipVars, orchVars>>
    \/ TimeServiceSettles /\ UNCHANGED <<rtcVars, dnsVars, ipVars, orchVars>>
    \/ TimezoneReturns /\ UNCHANGED <<rtcVars, dnsVars, ipVars, orchVars>>
    \/ checkTimezoneLeaksLookup /\ UNCHANGED <<rtcVars, dnsVars, ipVars, orchVars>>
    \/ LocationLookupSettles /\ UNCHANGED <<rtcVars, dnsVars, ipVars, orchVars>>
    \/ TimeServiceSafeSettles /\ UNCHANGED <<rtcVars, dnsVars, ipVars, orchVars>>
    \/ checkNetworkInterfaces /\ UNCHANGED <<rtcVars, dnsVars, ipVars, orchVars>>
    \/ PacketSizeSettles /\ UNCHANGED <<rtcVars, dnsVars, ipVars, orchVars>>
    \/ TestUrlSettles /\ UNCHANGED <<rtcVars, dnsVars, ipVars, orchVars>>
    \/ NetworkReturns /\ UNCHANGED <<rtcVars, dnsVars, ipVars, orchVars>>
    \/ analyzeTrafficPatterns /\ UNCHANGED <<rtcVars, dnsVars, ipVars, orchVars>>
    \/ TrafficRequestSettles /\ UNCHANGED <<rtcVars, dnsVars, ipVars, orchVars>>
    \/ TrafficReturns /\ UNCHANGED <<rtcVars, dnsVars, ipVars, orchVars>>

SpecProbes == Init /\ [][NextProbes]_vars

\* Every sub-request settles (safeFetch aborts its fetch after 5000 ms, a
\* fetch without a deadline of its own is ended by the browser) and the code
\* after an await runs.
FairSpecProbes == SpecProbes /\ WF_vars(NextProbes)

(***************************************************************************)
(* Properties of the peer-connection probe.                                *)
(***************************************************************************)
\* the promise was resolved by the timer callback
ResolvedAtDeadline == rtcSettled /\ "error" \notin DOMAIN rtcResult
\* the promise was resolved by the catch handler
ResolvedByCatch == rtcSettled /\ "error" \in DOMAIN rtcResult

\* the distinct IPv4 literals of the delivered lines that are classified public
PublicSeen ==
    { ipv4Match(l) : l \in { m \in seen : ipv4Match(m) # NoMatch /\ ~isLocalIPv4(ipv4Match(m)) } }

\* C1: when the probe resolves at the 5000 ms deadline, leaked is true iff more
\* than one distinct public IPv4 address was accumulated from the candidate
\* events; private and IPv6 addresses do not count.
C1_LeakedIffTwoPublic ==
    ResolvedAtDeadline =>
        /\ rtcResult.leaked <=> Cardinality(PublicSeen) > 1
        /\ Range(rtcResult.publicIps) = PublicSeen

\* C1 witness: negotiation succeeded and the probe resolved at the deadline with
\* two public addresses and at least one other address
C1_Witness ==
    /\ ResolvedAtDeadline
    /\ offer = "applied"
    /\ rtcResult.leaked
    /\ Cardinality(PublicSeen) = 2
    /\ Len(ips) > 2

\* C2 (as claimed): pc.close() is called exactly once on every exit path, and the
\* timer never calls it again after the failure path has closed the connection.
C2_ClosedExactlyOnce ==
    /\ closeCalls <= 1
    /\ rtcSettled => closeCalls = 1

C4_FailureResolvesAtOnce ==
    offer = "failed" =>
        /\ rtcSettled
        /\ rtcResult = [leaked |-> FALSE, ips |-> <<>>, error |-> TRUE]

\* C4 witness: setLocalDescription was rejected before the deadline and the
\* promise is resolved while the timer is still armed
C4_Witness ==
    /\ offer = "failed"
    /\ timer = "armed"
    /\ pc = "closed"
    /\ ResolvedByCatch

(***************************************************************************)
(* The private ranges as address arithmetic, for the classifier.           *)
(***************************************************************************)
\* the text of s up to the first "." (all of s if there is none)
RECURSIVE UpToDot(_)
UpToDot(s) == IF s = <<>> \/ Head(s) = "." THEN <<>> ELSE <<Head(s)>> \o UpToDot(Tail(s))

\* the dot-separated fields of s
RECURSIVE Fields(_)
Fields(s) ==
    LET f == UpToDot(s) IN
    IF Len(f) = Len(s) THEN <<f>>
    ELSE <<f>> \o Fields(SubSeq(s, Len(f) + 2, Len(s)))

\* the number a text of digits denotes
RECURSIVE DecValue(_)
DecValue(t) == IF t = <<>> THEN 0
               ELSE 10 * DecValue(SubSeq(t, 1, Len(t) - 1)) + DigitVal[t[Len(t)]]

\* a dotted-decimal IPv4 literal: four fields 0..255 without leading zeros
WellFormedIPv4(ip) ==
    LET fs == Fields(ip) IN
    /\ Len(fs) = 4
    /\ \A i \in 1..4 :
         /\ Len(fs[i]) \in 1..3
         /\ Range(fs[i]) \subseteq Digits
         /\ Len(fs[i]) > 1 => fs[i][1] # "0"
         /\ DecValue(fs[i]) <= 255

\* 10.0.0.0/8, 172.16.0.0/12, 192.168.0.0/16, 169.254.0.0/16
InPrivateRange(ip) ==
    LET a == DecValue(Fields(ip)[1])
        b == DecValue(Fields(ip)[2])
    IN \/ a = 10
       \/ a = 172 /\ b \in 16..31
       \/ a = 192 /\ b = 168
       \/ a = 169 /\ b = 254

\* C5: every well-formed IPv4 literal extracted from a candidate line is in the
\* local set iff it lies in one of the four private ranges and in the public
\* set otherwise, whatever the line around it and however often it is found.
C5_ClassifierRanges ==
    \A l \in seen :
        LET ip == ipv4Match(l) IN
        (ip # NoMatch /\ WellFormedIPv4(ip)) =>
            /\ (ip \in Range(localIps)) <=> InPrivateRange(ip)
            /\ (ip \in Range(publicIps)) <=> ~InPrivateRange(ip)

\* C5 witness: 172.32.0.1, just above 172.16.0.0/12, was found in two different
\* lines and is classified public
C5_Witness ==
    /\ nCandidates = 2
    /\ Cardinality(seen) = 2
    /\ publicIps = <<IPv4Text(DecText(172), DecText(32), DecText(0), DecText(1))>>
    /\ localIps = <<>>


(***************************************************************************)
(* Properties of the resolver probe.                                       *)
(***************************************************************************)
DNSDone == dnsPhase = "done"

\* the records collected for a domain, in the order of results
RecordsOf(domain) == SelectSeq(results, LAMBDA r : r.domain = domain)

\* C6: the verdict is leaked iff at least one of the three flags is set.
C6_LeakedIsOrOfFlags ==
    DNSDone =>
        (dnsResult.leaked <=> \/ leakAnalysis.inconsistentIPv4
                              \/ leakAnalysis.inconsistentIPv6
                              \/ leakAnalysis.mismatchedPtr)

\* C6 witness: a run whose only flag is mismatchedPtr, reported as a leak
C6_Witness ==
    /\ DNSDone
    /\ dnsResult.leaked
    /\ leakAnalysis = [inconsistentIPv4 |-> FALSE, inconsistentIPv6 |-> FALSE,
                       mismatchedPtr |-> TRUE]

\* some record of the domain has another address set than the first record
DiffersFromFirst(domain, field) ==
    LET rs == RecordsOf(domain) IN
    \E i \in DOMAIN rs : Range(rs[i][field]) # Range(rs[1][field])

\* C7: at the end of the run inconsistentIPv4 is set iff for some test domain a
\* record's IPv4 address set differs from the set of the domain's first record,
\* whichever domain that is; likewise inconsistentIPv6 for the IPv6 sets.
C7_InconsistentIffSomeDomainDiffers ==
    DNSDone =>
        /\ leakAnalysis.inconsistentIPv4 <=>
             \E d \in Range(testDomains) : DiffersFromFirst(d, "ipv4")
        /\ leakAnalysis.inconsistentIPv6 <=>
             \E d \in Range(testDomains) : DiffersFromFirst(d, "ipv6")

\* C7 witness: the first domain's records differ, the last domain's two records
\* agree, and the flag is still set at the end
C7_Witness ==
    /\ DNSDone
    /\ leakAnalysis.inconsistentIPv4
    /\ DiffersFromFirst(testDomains[1], "ipv4")
    /\ Len(RecordsOf(testDomains[Len(testDomains)])) = 2
    /\ ~DiffersFromFirst(testDomains[Len(testDomains)], "ipv4")

\* both resolvers produced a record for every domain, with equal address sets
BothAgreeOnAddresses ==
    \A d \in Range(testDomains) :
        LET rs == RecordsOf(d) IN
        /\ Len(rs) = Len(DNS_SERVERS)
        /\ \A i \in DOMAIN rs : /\ Range(rs[i].ipv4) = Range(rs[1].ipv4)
                                /\ Range(rs[i].ipv6) = Range(rs[1].ipv6)

\* the PTR names of the records of a domain that have one
PtrNames(domain) ==
    LET rs == RecordsOf(domain) IN
    { rs[i].reversePtr : i \in { j \in DOMAIN rs : rs[j].reversePtr # Undefined } }

NoLeakVerdict ==
    /\ dnsResult.leaked = FALSE
    /\ leakAnalysis = [inconsistentIPv4 |-> FALSE, inconsistentIPv6 |-> FALSE,
                       mismatchedPtr |-> FALSE]
    /\ dnsResult.message = "No DNS leaks detected"

\* C8 (as claimed): if for every domain both resolvers return identical IPv4 and
\* IPv6 address sets, the verdict is no leak, all flags false, message
\* "No DNS leaks detected".
C8_IdenticalSetsNoLeak ==
    (DNSDone /\ BothAgreeOnAddresses) => NoLeakVerdict

\* C8 (amended): if for every domain both resolvers return identical IPv4 and
\* IPv6 address sets and no two PTR names of a domain differ, the verdict is no
\* leak, all flags false, message "No DNS leaks detected".
C8_IdenticalSetsAndPtrNoLeak ==
    (DNSDone /\ BothAgreeOnAddresses /\ \A d \in Range(testDomains) : Cardinality(PtrNames(d)) <= 1)
        => NoLeakVerdict

\* C8 witness: a no-leak run in which the resolvers list the same two addresses
\* of a domain in different orders, with the same PTR name
C8_Witness ==
    /\ DNSDone
    /\ BothAgreeOnAddresses
    /\ \A d \in Range(testDomains) : Cardinality(PtrNames(d)) = 1
    /\ \E d \in Range(testDomains) :
         /\ RecordsOf(d)[1].ipv4 # RecordsOf(d)[2].ipv4
         /\ Cardinality(Range(RecordsOf(d)[1].ipv4)) = 2
    /\ NoLeakVerdict

\* C9: mismatchedPtr is set iff for some test domain at least two records carry
\* a PTR name and these names are not all equal.
C9_PtrMismatchIffTwoDiffer ==
    DNSDone =>
        (leakAnalysis.mismatchedPtr <=>
            \E d \in Range(testDomains) :
                LET rs == RecordsOf(d)
                    named == { j \in DOMAIN rs : rs[j].reversePtr # Undefined }
                IN /\ Cardinality(named) >= 2
                   /\ \E i, j \in named : rs[i].reversePtr # rs[j].reversePtr)

\* C9 witness: every domain has one record with a PTR name and one without, and
\* the flag is not set
C9_Witness ==
    /\ DNSDone
    /\ ~leakAnalysis.mismatchedPtr
    /\ \A d \in Range(testDomains) :
         /\ Len(RecordsOf(d)) = 2
         /\ Cardinality(PtrNames(d)) = 1
         /\ \E i \in 1..2 : RecordsOf(d)[i].reversePtr = Undefined

AllPairs == { <<testDomains[i], DNS_SERVERS[j]>> : i \in DOMAIN testDomains, j \in DOMAIN DNS_SERVERS }

\* C10 (as claimed): a pair whose A or AAAA query fails in the network or gets a
\* non-OK status contributes no record, and every pair is queried all the same.
C10_FailedPairHasNoRecord ==
    /\ \A pair \in failedPairs :
         \A i \in DOMAIN results :
             ~(results[i].domain = pair[1] /\ results[i].server = pair[2])
    /\ DNSDone => queried = AllPairs

\* the PTR lookup of an address failed in the network or its body is not JSON
PtrLookupThrows(ex, ip) == ~ex.ptr[arpaName(ip)].net \/ ~ex.ptr[arpaName(ip)].body.json

\* the PTR name a resolver answered for an address, if it answered one
PtrAnswered(ex, ip) ==
    /\ ~PtrLookupThrows(ex, ip)
    /\ "Answer" \in DOMAIN ex.ptr[arpaName(ip)].body.value
    /\ ex.ptr[arpaName(ip)].body.value.Answer # <<>>

\* the records of a pair
RecordsOfPair(pair) == SelectSeq(results, LAMBDA r : r.domain = pair[1] /\ r.server = pair[2])

\* the pairs whose A and AAAA queries were answered with a JSON body and for
\* which the PTR lookup of at least one resolved address threw
PairsWithThrowingPtr ==
    { pair \in DOMAIN exchanged :
        /\ exchanged[pair].a.net /\ exchanged[pair].a.body.json
        /\ exchanged[pair].aaaa.net /\ exchanged[pair].aaaa.body.json
        /\ \E ip \in Range(answerData(exchanged[pair].a)) : PtrLookupThrows(exchanged[pair], ip) }

IPDone == ipPhase = "done"

\* the address a response carries, as a set: empty if the request failed, the
\* body is unreadable or the body names no address
AddressIn(service, resp) ==
    IF resp = Pending \/ ~resp.net THEN {}
    ELSE IF "text" \in DOMAIN resp.body
         THEN { t \in Range(resp.body.text) : t \notin Whitespace }
    ELSE IF ~resp.body.json THEN {}
    ELSE { resp.body.value[f] : f \in { g \in {"ip", "address", "query"} \cap DOMAIN resp.body.value :
                                           resp.body.value[g] # EmptyString } }

\* the services that succeeded: their response carries an address
Succeeded == { i \in DOMAIN IP_SERVICES : AddressIn(IP_SERVICES[i], svcResponses[i]) # {} }

\* the services that answered with a malformed body
Malformed ==
    { i \in DOMAIN IP_SERVICES :
        /\ svcResponses[i] # Pending
        /\ svcResponses[i].net
        /\ AddressIn(IP_SERVICES[i], svcResponses[i]) = {} }

SucceededAddresses == UNION { AddressIn(IP_SERVICES[i], svcResponses[i]) : i \in Succeeded }

\* every getIpLocation call returned a location
AllLocated == locationData # <<>> /\ \A i \in DOMAIN locationData : locationData[i] # Pending

\* no getIpLocation call threw
NoLocationThrew == \A i \in DOMAIN locationData : locationData[i] # Pending

\* C12 (as claimed, for the runs in which no geolocation lookup threw):
\* checkIPAddress returns a valid verdict whenever at least one identification
\* service succeeds, and {error: true} when none succeeds.
C12_VerdictIffSomeServiceSucceeds ==
    (IPDone /\ NoLocationThrew) => (ipResult = ipError <=> Succeeded = {})

\* C13 (as claimed): a service that answers with a malformed body is dropped:
\* it adds no address to allIPs, does not make the verdict inconsistent, is not
\* the primary address, and does not make the probe return {error: true} while
\* another service succeeded and the locations were found.
C13_MalformedServiceDropped ==
    (IPDone /\ Malformed # {}) =>
        /\ (Succeeded # {} /\ AllLocated) => ipResult # ipError
        /\ ipResult # ipError =>
             /\ Range(ipResult.allIPs) \subseteq SucceededAddresses
             /\ ipResult.consistent <=> Cardinality(SucceededAddresses) = 1
             /\ ipResult.ip \in SucceededAddresses

\* C14 (as claimed): whatever the order in which the service requests complete,
\* the verdict's allIPs is the set of distinct addresses of the successful
\* services, consistent is true iff that set has one element, and the primary
\* address is that of the first successful service in configured order.
C14_VerdictFromSuccessfulServices ==
    (IPDone /\ ipResult # ipError) =>
        /\ Range(ipResult.allIPs) = SucceededAddresses
        /\ Len(ipResult.allIPs) = Cardinality(SucceededAddresses)
        /\ ipResult.consistent <=> Cardinality(SucceededAddresses) = 1
        /\ \E i \in Succeeded :
             /\ \A j \in Succeeded : i <= j
             /\ ipResult.ip \in AddressIn(IP_SERVICES[i], svcResponses[i])

\* C15: if the geolocation request fails in the network or gets a non-OK status
\* for one of the distinct addresses, checkIPAddress returns {error: true},
\* also when services succeeded, and geoData stays as startAllTests left it.
C15_GeolocationFailureIsFatal ==
    geoFailed # {} =>
        /\ IPDone
        /\ ipResult = ipError
        /\ geoData = <<>>

\* C15 witness: all three services succeeded with two distinct addresses, the
\* location of one address was found and the request for the other failed
C15_Witness ==
    /\ Succeeded = DOMAIN IP_SERVICES
    /\ Len(uniqueIPs) = 2
    /\ \E i \in DOMAIN locationData : locationData[i] # Pending
    /\ geoFailed # {}
    /\ ipResult = ipError
    /\ geoData = <<>>


(***************************************************************************)
(* Properties of the orchestrator.                                         *)
(***************************************************************************)
\* C16 (as claimed): once the outcome of a test is passed, failed or error, no
\* step changes it, whatever start requests and probe completions follow.
C16_TerminalNeverChanges ==
    [][ /\ \A t \in PrimaryKeys : tests[t].status \in Terminal => tests'[t] = tests[t]
        /\ \A k \in AdvKeys : advTests[k].status \in Terminal => advTests'[k] = advTests[k]
      ]_vars

\* C16 (amended): a terminal outcome of a primary test is changed only by the
\* start request of a new run, which sets the test to running; a terminal
\* outcome of a secondary test is never changed.
C16_TerminalChangesOnlyAtStart ==
    [][ /\ \A t \in PrimaryKeys :
             (tests[t].status \in Terminal /\ tests'[t] # tests[t]) =>
                 /\ ~isRunning /\ isRunning' /\ basicPc' = "webRTC"
                 /\ tests'[t].status = "running"
        /\ \A k \in AdvKeys : advTests[k].status \in Terminal => advTests'[k] = advTests[k]
      ]_vars

\* C16 witness: a later run is complete (its runTests found no test pending),
\* the primary tests were tested again and the secondary tests are as the first
\* run left them
C16_Witness ==
    /\ ~isRunning
    /\ advIdx = 0
    /\ \A k \in AdvKeys : currentState[k].status \in Terminal
    /\ \A t \in PrimaryKeys : tests[t].status \in Terminal
    /\ \A k \in AdvKeys : advTests[k].status \in Terminal
    /\ \E k \in AdvKeys : advTests[k].status = "error"

\* C17 (as claimed): after a run is started every primary test eventually is
\* passed, failed or error, also when a probe throws or rejects.
C17_PrimaryTestsTerminate ==
    \A t \in PrimaryKeys : (tests[t].status = "running") ~> (tests[t].status \in Terminal)

\* C18 (as claimed): if a primary probe throws, the outcomes of the other two
\* probes are still written by the time runBasicTests returns.
C18_SiblingOutcomesWritten ==
    (threw # {} /\ basicPc = "idle") =>
        \A t \in PrimaryKeys \ threw : tests[t].status \in Terminal

\* C19: a secondary test whose timer fired before its probe settled is error,
\* the await of a probe always ends, and the sequence reaches onTestComplete,
\* also when a probe never settles.
C19_DeadlineUnblocksSequence ==
    /\ [](\A k \in timedOut : advTests[k].status = "error")
    /\ [](advIdx > 0 => \A k \in timedOut : AdvOrder[advIdx] # k)
    /\ \A k \in AdvKeys : racePending(k) ~> ~racePending(k)
    /\ (advIdx > 0) ~> (advIdx = 0 /\ ~isLocalRunning /\ ~isRunning /\ ~shouldRunAdvanced)

\* C19 witness: the timezone probe never settled, its test is error, the next
\* probe ran and passed, and onTestComplete was called
C19_Witness ==
    /\ "timezone" \in timedOut
    /\ probe["timezone"] = "running"
    /\ advTests["timezone"].status = "error"
    /\ advTests["network"].status = "passed"
    /\ advIdx = 0
    /\ ~isRunning

\* C20 (as claimed): when a secondary test becomes error, by its deadline or
\* because the probe threw, the error outcome holds the detail lines the probe
\* had gathered.
C20_ErrorKeepsEvidence ==
    [][ \A k \in AdvKeys :
            (advTests'[k].status = "error" /\ advTests[k].status # "error") =>
                advTests'[k].details = gathered
      ]_vars

(***************************************************************************)
(* Further properties of the peer-connection probe.                        *)
(***************************************************************************)
\* the IPv4 and the IPv6 literals extracted from the delivered lines
V4Seen == { ipv4Match(l) : l \in { m \in seen : ipv4Match(m) # NoMatch } }
V6Seen == { ipv6Match(l) : l \in { m \in seen : ipv6Match(m) # NoMatch } }

\* C24: after any candidate events the local and the public set are disjoint,
\* every IPv4 literal found is in exactly one of them, the IPv6 set is part of
\* the set of all addresses, which is the union of the three; no IPv6 literal is
\* in the public set, and lines without an IPv4 literal leave the public set
\* empty and leaked false.
C24_AddressSetsPartition ==
    /\ Range(localIps) \cap Range(publicIps) = {}
    /\ \A ip \in V4Seen : (ip \in Range(localIps)) # (ip \in Range(publicIps))
    /\ Range(localIps) \cup Range(publicIps) = V4Seen
    /\ Range(ipv6Ips) = V6Seen
    /\ Range(ipv6Ips) \subseteq Range(ips)
    /\ Range(ips) = Range(localIps) \cup Range(publicIps) \cup Range(ipv6Ips)
    /\ Range(publicIps) \cap V6Seen = {}
    /\ V4Seen = {} => /\ publicIps = <<>>
                      /\ rtcSettled => ~rtcResult.leaked

\* C24 witness: a private, a public and an IPv6 address were found, one line
\* carried two of them
C24_Witness ==
    /\ localIps # <<>>
    /\ publicIps # <<>>
    /\ ipv6Ips # <<>>
    /\ Len(ips) = 3
    /\ Cardinality(seen) = 2

\* C24 witness of the IPv6 case: only IPv6 candidates arrived and the probe
\* resolved at the deadline without a leak
C24_WitnessV6Only ==
    /\ ResolvedAtDeadline
    /\ V4Seen = {}
    /\ Len(rtcResult.ipv6Ips) = 1
    /\ ~rtcResult.leaked

\* C25: the first of the two events fixes the delivered result: once the
\* promise is resolved its value never changes; after a negotiation failure the
\* timer still fires and the result stays the error result, whose address list
\* is empty whatever was gathered.
C25_FirstEventFixesResult ==
    /\ [][rtcSettled => (rtcSettled' /\ rtcResult' = rtcResult)]_vars
    /\ [][(~rtcSettled /\ rtcSettled') =>
             rtcResult' = IF offer' = "failed" THEN errorResult ELSE deadlineResult]_vars
    /\ [](ResolvedByCatch => (rtcResult.ips = <<>> /\ ~rtcResult.leaked))
    /\ ResolvedByCatch ~> (timer = "fired" /\ ResolvedByCatch)

\* C25 witness: negotiation failed after two public addresses had been gathered,
\* the timer fired later, and the delivered result is the error result
C25_Witness ==
    /\ ResolvedByCatch
    /\ timer = "fired"
    /\ closeCalls = 2
    /\ Len(publicIps) = 2
    /\ rtcResult = errorResult

(***************************************************************************)
(* Further properties of the resolver probe.                               *)
(***************************************************************************)
Reverse(list) == [i \in DOMAIN list |-> list[Len(list) + 1 - i]]

\* the record with its addresses in the reverse order, each listed twice
Reordered(r) == [r EXCEPT !.ipv4 = Reverse(r.ipv4) \o r.ipv4,
                          !.ipv6 = Reverse(r.ipv6) \o r.ipv6]

\* the two address flags the body of the analysis loop computes for a domain
DomainFlags(domain, rs) ==
    LET la == analyzeDomain(noLeak, domain, rs) IN <<la.inconsistentIPv4, la.inconsistentIPv6>>

\* two records of the domain have different address sets
SomeTwoDiffer(domain, field) ==
    LET rs == RecordsOf(domain) IN
    \E i, j \in DOMAIN rs : Range(rs[i][field]) # Range(rs[j][field])

\* C23: at the end of the run the address flags are those of set equality
\* between the records of a domain: they are the same for the records in the
\* reverse order and when the addresses of a record of the domain are reordered
\* and duplicated, and a domain with one record or none sets no flag.
C23_ConsistencyIsSetEquality ==
    DNSDone =>
        LET flags == [d \in Range(testDomains) |-> DomainFlags(d, results)] IN
        /\ \A d \in Range(testDomains) :
              /\ flags[d] = <<SomeTwoDiffer(d, "ipv4"), SomeTwoDiffer(d, "ipv6")>>
              /\ DomainFlags(d, Reverse(results)) = flags[d]
              /\ \A i \in DOMAIN results :
                    results[i].domain = d =>
                        DomainFlags(d, [results EXCEPT ![i] = Reordered(results[i])]) = flags[d]
              /\ Len(RecordsOf(d)) <= 1 => flags[d] = <<FALSE, FALSE>>
        /\ leakAnalysis.inconsistentIPv4 <=> \E d \in Range(testDomains) : flags[d][1]
        /\ leakAnalysis.inconsistentIPv6 <=> \E d \in Range(testDomains) : flags[d][2]

\* C23 witness: the run is over without an address flag; one domain has a
\* single record, the records of another list the same two addresses in
\* different orders and numbers
C23_Witness ==
    /\ DNSDone
    /\ ~leakAnalysis.inconsistentIPv4
    /\ ~leakAnalysis.inconsistentIPv6
    /\ \E d \in Range(testDomains) :
         /\ Len(RecordsOf(d)) = 1
         /\ RecordsOf(d)[1].ipv4 # <<>>
    /\ \E d \in Range(testDomains) :
         /\ Len(RecordsOf(d)) = 2
         /\ Len(RecordsOf(d)[1].ipv4) # Len(RecordsOf(d)[2].ipv4)
         /\ Cardinality(Range(RecordsOf(d)[1].ipv4)) = 2

(***************************************************************************)
(* Further properties of the orchestrator.                                 *)
(***************************************************************************)
\* the step in which runBasicTests writes the outcome of checkWebRTCLeak
WebRTCOutcomeWritten == basicPc = "webRTC" /\ basicPc' = "dns"

\* C26: the webRTC test is never error; the outcome written for a result of the
\* probe is failed iff the result is leaked, and for the error result of a
\* failed negotiation it is passed with the message "No WebRTC leaks detected".
C26_NegotiationFailureShownAsPassed ==
    /\ [](tests.webRTC.status # "error")
    /\ [][ WebRTCOutcomeWritten =>
             \E r \in WebRTCResults :
                 /\ tests'.webRTC.details[1] = <<"Total IPs found", Len(r.ips)>>
                 /\ tests'.webRTC.status = IF r.leaked THEN "failed" ELSE "passed"
                 /\ "error" \in DOMAIN r =>
                       /\ tests'.webRTC.status = "passed"
                       /\ tests'.webRTC.message = "No WebRTC leaks detected"
                       /\ tests'.webRTC.details =
                             << <<"Total IPs found", 0>>, <<"Local IPs", <<"None">>>>,
                                <<"Public IPs", <<"None">>>>, <<"IPv6 IPs", <<"None">>>> >>
          ]_vars

\* C26 witness: the outcome of a failed negotiation is shown while the resolver
\* probe runs
C26_Witness ==
    /\ basicPc = "dns"
    /\ tests.webRTC.status = "passed"
    /\ tests.webRTC.message = "No WebRTC leaks detected"
    /\ tests.webRTC.details[1] = <<"Total IPs found", 0>>
    /\ tests.webRTC.details[2] = <<"Local IPs", <<"None">>>>

C28_NoProbeInFlightAtStart ==
    ~isRunning => /\ basicPc = "idle"
                  /\ advIdx = 0
                  /\ \A k \in AdvKeys : probe[k] # "running"

\* C28 (amended): when a start request is accepted, runBasicTests and the
\* secondary sequence of the earlier run are over; a probe that still runs is
\* one that was abandoned at its deadline, and when it settles no test outcome
\* changes.
C28_OneRunAtATime ==
    /\ [](~isRunning => (basicPc = "idle" /\ advIdx = 0 /\ ~triggered /\ ~isLocalRunning))
    /\ [](\A k \in AdvKeys : (probe[k] = "running" /\ ~racePending(k)) => k \in timedOut)
    /\ [][ \A k \in AdvKeys :
               (probe[k] = "running" /\ probe'[k] = "settled" /\ ~racePending(k)) =>
                   (tests' = tests /\ advTests' = advTests) ]_vars

\* C28 witness: a run is under way while a probe abandoned by an earlier run
\* has not settled
C28_Witness ==
    /\ isRunning
    /\ basicPc = "dns"
    /\ \E k \in timedOut : probe[k] = "running" /\ advTests[k].status = "error"

\* C29 (as claimed): while the secondary sequence runs, the three primary tests
\* have their outcome, the tests before the one being run are terminal, and the
\* probes of the tests after it have not been called.
C29_SecondaryAfterPrimaryInOrder ==
    advIdx > 0 =>
        /\ \A t \in PrimaryKeys : tests[t].status \in Terminal
        /\ \A j \in 1..(advIdx - 1) : advTests[AdvOrder[j]].status \in Terminal
        /\ \A j \in (advIdx + 1)..Len(AdvOrder) : probe[AdvOrder[j]] = "idle"

\* the step of the effect in which runTests is called
SequenceTriggered == triggered /\ ~triggered' /\ shouldRunAdvanced /\ ~isLocalRunning

\* C22 (as claimed): when the sequence is triggered each of the four tests goes
\* from pending to running, every running test becomes terminal, a terminal
\* outcome is written once, and only for a test whose probe was called.
C22_SecondaryLifecycle ==
    /\ [][ SequenceTriggered =>
             \A k \in AdvKeys : advTests[k].status = "pending" /\ advTests'[k].status = "running"
          ]_vars
    /\ \A k \in AdvKeys : (advTests[k].status = "running") ~> (advTests[k].status \in Terminal)
    /\ [][ \A k \in AdvKeys :
               /\ advTests[k].status \in Terminal => advTests'[k] = advTests[k]
               /\ (advTests[k].status = "running" /\ advTests'[k].status \in Terminal) =>
                      probe[k] # "idle"
          ]_vars

(***************************************************************************)
(* Properties of the secondary probes.                                     *)
(***************************************************************************)
\* the times of the sub-requests that got a response, in order
SuccessTimes(outs) ==
    LET got == SelectSeq(outs, LAMBDA r : r.kind = "opaque")
    IN  [i \in DOMAIN got |-> got[i].time]

SumOfSquares(ts) == Sum([i \in DOMAIN ts |-> ts[i] * ts[i]])

TrafficReturned == subProbe = "traffic" /\ subReturn # NoValue

\* C30: the traffic probe reports "failed" exactly when at least one of its five
\* requests was measured and the mean of the measured times is above 100 ms or
\* their (population) standard deviation is above 50 ms; otherwise, and when
\* all five requests fail, it reports "passed".  With n times of sum s and sum
\* of squares q: s / n > 100 is s > 100 * n, and sqrt(q / n - (s / n)^2) > 50 is
\* n * q - s * s > 2500 * n * n.
C30_TrafficVerdict ==
    TrafficReturned =>
        LET ts == SuccessTimes(subOutcomes)
            n == Len(ts)
            s == Sum(ts)
            q == SumOfSquares(ts)
        IN  /\ Len(subOutcomes) = 5
            /\ subReturn.status \in {"passed", "failed"}
            /\ subReturn.status = "failed" <=>
                 (n >= 1 /\ (s > 100 * n \/ n * q - s * s > 2500 * n * n))
            /\ n = 0 => subReturn.status = "passed"

\* a run with failed requests whose measured times have a mean of at most 100 ms
\* and a deviation above 50 ms
C30_Witness ==
    /\ TrafficReturned
    /\ subReturn.status = "failed"
    /\ Len(measurements) \in 1 .. 4
    /\ ~avgExceeds(measurements)

\* a sub-request that got no usable answer
RequestFailed(resp) == resp.kind \in {"rejected", "aborted", "badJson"}

\* a detail line that reports a failed sub-request
IsFailureLine(line) ==
    \/ line[1] \in {"Error checking time service", "Failed to connect to time service",
                    "Failed to test packet size", "Failed to connect to"}
    \/ line[1] = "Request" /\ Len(line) = 3

\* the sub-requests of a probe
RequestsOf(which) ==
    CASE which = "network" -> 7
      [] which = "traffic" -> 5
      [] which = "timezone" -> 2
      [] which = "timezoneLookup" -> 3
      [] OTHER -> 0

SubRequestSettles == subOutcomes' # subOutcomes

ProbeReturned == subProbe # "none" /\ subReturn # NoValue

\* C21: in the timezone, network and traffic probes a sub-request that fails or
\* times out adds one failure line to the details and the probe goes on with
\* its remaining sub-requests; the probe makes all of its sub-requests and
\* always returns a result (it is never rejected), with a failure line for
\* every failed sub-request.
C21_FailedSubRequestTolerated ==
    /\ [][SubRequestSettles =>
            /\ RequestFailed(subOutcomes'[Len(subOutcomes')]) =>
                 /\ Len(subResults') = Len(subResults) + 1
                 /\ IsFailureLine(subResults'[Len(subResults')])
            /\ subReturn' = NoValue
            /\ subStep' = subStep + 1]_vars
    /\ [](ProbeReturned =>
            /\ subReturn.status \in {"passed", "failed"}
            /\ Len(subOutcomes) = RequestsOf(subProbe)
            /\ Cardinality({i \in DOMAIN subReturn.details : IsFailureLine(subReturn.details[i])})
                 >= Cardinality({j \in DOMAIN subOutcomes : RequestFailed(subOutcomes[j])}))
    /\ (subProbe # "none") ~> ProbeReturned
====
